---- MODULE Spec2Model ----
(***************************************************************************)
(* Collab-Mentions: the multi-writer document store (chat.json,            *)
(* users.json, users.lock) shared by several plugin processes.             *)
(*                                                                         *)
(* Every process keeps its own in-memory copy of each document and         *)
(* reads / merges / writes the shared file.  Every file access is an       *)
(* await, so the steps of different processes interleave freely; the code  *)
(* between two awaits of one process is atomic.  One user-level operation  *)
(* is in flight per process at a time.                                     *)
(*                                                                         *)
(* JavaScript `undefined' is the string "undef" for string-valued fields,  *)
(* 0 for timestamps and a def flag for arrays.  Arrays whose order no      *)
(* handler reads (members, reaction users, channels, tombstones) are sets. *)
(* Times are milliseconds.                                                 *)
(***************************************************************************)
EXTENDS Integers, Sequences, FiniteSets, TLC

\* ------------------------------------------------------------------------
\* Program constants
\* ------------------------------------------------------------------------
GENERAL_CHANNEL_ID == "general"
MAX_MESSAGES_PER_CHANNEL == 200
MAX_SAVE_RETRIES == 3
MAX_LOAD_RETRIES == 3
MAX_REGISTRATION_RETRIES == 3
DELETED_CHANNEL_RETENTION_MS == 86400000
MESSAGE_PROTECTION_DURATION == 60000
DISMISS_PROTECTION_DURATION == 60000
CHANNEL_DELETE_PROTECTION == 300000
LEAVE_PROTECTION_DURATION == 300000
ADD_MEMBER_PROTECTION_DURATION == 300000
REACTION_TOGGLE_PROTECTION_DURATION == 60000
USER_DELETE_PROTECTION == 300000
LOCK_TIMEOUT == 10000

\* ------------------------------------------------------------------------
\* Bounds of the model
\* ------------------------------------------------------------------------
\* number of clock advances in one behaviour
MaxTicks == 1
\* number of reads the storage layer may hand back damaged
MaxCorruptReads == 3
\* operations (calls of the plugin's API, loadChat included) in one behaviour
MaxCalls == 3

\* ------------------------------------------------------------------------
\* Universe
\* ------------------------------------------------------------------------
Procs == {"A", "B"}
Undef == "undef"
System == "system"
\* the user registered on each machine
CurrentUserOf == [p \in Procs |-> IF p = "A" THEN "alice" ELSE "bob"]
\* userManager.isCurrentUserAdmin() of each machine: alice is the primary admin
IsCurrentUserAdmin == [p \in Procs |-> p = "A"]
Users == {"alice", "bob", "carol"}
UserOrder == <<"alice", "bob", "carol">>
Emojis == {"+1"}
EmojiOrder == <<"+1">>
ChannelOrder == <<"general", "c1">>
MsgIds == {"m0", "m1", "m2"}
StartTime == 1000

\* ------------------------------------------------------------------------
\* Small helpers
\* ------------------------------------------------------------------------
Range(s) == {s[i] : i \in DOMAIN s}

RECURSIVE SeqOfSet(_, _)
\* the members of set S in the order of sequence ord
SeqOfSet(ord, S) ==
    IF ord = <<>> THEN <<>>
    ELSE IF Head(ord) \in S THEN <<Head(ord)>> \o SeqOfSet(Tail(ord), S)
    ELSE SeqOfSet(Tail(ord), S)

RECURSIVE FlatMap(_, _)
\* the concatenation of F(s[1]), F(s[2]), ...; halved so that long lists nest little
FlatMap(F(_), s) ==
    IF s = <<>> THEN <<>>
    ELSE IF Len(s) = 1 THEN F(s[1])
    ELSE LET mid == Len(s) \div 2
         IN  FlatMap(F, SubSeq(s, 1, mid)) \o FlatMap(F, SubSeq(s, mid + 1, Len(s)))

Restrict(f, S) == [x \in S |-> f[x]]
With(f, x, v) == [y \in DOMAIN f \cup {x} |-> IF y = x THEN v ELSE f[y]]

\* ------------------------------------------------------------------------
\* ContentHasher: FNV-1a, 32-bit, kept as two 16-bit halves <<hi, lo>>
\* ------------------------------------------------------------------------
RECURSIVE Xor(_, _, _)
\* bitwise exclusive or of the low `bits' bits of a and b
Xor(a, b, bits) ==
    IF bits = 0 THEN 0
    ELSE ((a + b) % 2) + 2 * Xor(a \div 2, b \div 2, bits - 1)

\* exclusive or of two 4-bit values, tabulated
XorNibble == [a \in 0..15 |-> [b \in 0..15 |-> Xor(a, b, 4)]]
\* exclusive or of two bytes
XorByte(a, b) == 16 * XorNibble[a \div 16][b \div 16] + XorNibble[a % 16][b % 16]

FNV_OFFSET == <<33052, 40389>>
FNV_PRIME_HI == 256
FNV_PRIME_LO == 403

\* Number.prototype multiplication is done on doubles: a product of 2^53 or more
\* loses its low bits (round to nearest, ties to even).  lo is the low 16-bit limb
\* of the exact product and top its limb above 2^48; the result is the low limb of
\* the rounded product and the carry into the next limb.
DroppedBits(top) == IF top < 32 THEN 0 ELSE IF top < 64 THEN 1 ELSE IF top < 128 THEN 2 ELSE 3

RoundLow(lo, top) ==
    LET q == 2 ^ DroppedBits(top)
        r == lo % q
        base == lo - r
        up == (2 * r > q) \/ (2 * r = q /\ (base \div q) % 2 = 1)
        v == IF up THEN base + q ELSE base
    IN  << v \div 65536, v % 65536 >>

\* two's complement of a 32-bit value kept as <<hi, lo>>
Negate32(h) ==
    IF h[2] = 0 THEN << (65536 - h[1]) % 65536, 0 >> ELSE << 65535 - h[1], 65536 - h[2] >>

\* one round: hash ^= code (a signed 32-bit result); hash = (hash * 16777619) >>> 0
FnvStep(h, code) ==
    LET x == << h[1], IF code < 256
                      THEN (h[2] - (h[2] % 256)) + XorByte(h[2] % 256, code)
                      ELSE 256 * XorByte(h[2] \div 256, code \div 256)
                           + XorByte(h[2] % 256, code % 256) >>
        negative == x[1] >= 32768
        mag == IF negative THEN Negate32(x) ELSE x
        t0 == mag[2] * FNV_PRIME_LO
        t1 == mag[1] * FNV_PRIME_LO + mag[2] * FNV_PRIME_HI + (t0 \div 65536)
        t2 == mag[1] * FNV_PRIME_HI + (t1 \div 65536)
        low == IF t2 < 32 * 65536 THEN << 0, t0 % 65536 >>
               ELSE RoundLow(t0 % 65536, t2 \div 65536)
        res == << ((t1 % 65536) + low[1]) % 65536, low[2] >>
    IN  IF negative THEN Negate32(res) ELSE res

RECURSIVE FnvFold(_, _, _, _)
\* the rounds for content[from..to], left to right
FnvFold(h, content, from, to) ==
    IF from > to THEN h
    ELSE IF from = to THEN FnvStep(h, content[from])
    ELSE LET mid == (from + to) \div 2
             left == FnvFold(h, content, from, mid)
         IN  IF left[1] >= 0 THEN FnvFold(left, content, mid + 1, to) ELSE left

computeHash(content) == FnvFold(FNV_OFFSET, content, 1, Len(content))

\* "verifyHash === contentHash"; equal contents need no hashing to compare equal
SameHash(written, readBack) ==
    written = readBack \/ computeHash(written) = computeHash(readBack)

NoChecksum == <<0, 0>>

\* ------------------------------------------------------------------------
\* Chat messages
\* ------------------------------------------------------------------------
NoReactions == [def |-> FALSE, pairs |-> {}]
\* "mergedReactions.length > 0 ? mergedReactions : undefined"
ReactionsOrUndef(S) == IF S = {} THEN NoReactions ELSE [def |-> TRUE, pairs |-> S]

\* ChatManager.extractMentions / extractFileLinks / extractChannelMentions on the
\* message texts of the model
extractMentions(text) == IF text = "e1" THEN "@bob" ELSE Undef
extractFileLinks(text) == IF text = "e2" THEN "[[note]]" ELSE Undef
extractChannelMentions(text) == IF text = "e2" THEN "general" ELSE Undef

NewMessage(id, from, text, t) ==
    [id |-> id, from |-> from, message |-> text, timestamp |-> t,
     fileLinks |-> extractFileLinks(text), mentions |-> extractMentions(text),
     channelMentions |-> extractChannelMentions(text), images |-> Undef,
     reactions |-> NoReactions, edited |-> FALSE, editedAt |-> 0, deleted |-> FALSE]

MsgIdsOf(msgs) == {msgs[i].id : i \in DOMAIN msgs}
MsgById(msgs, id) == msgs[CHOOSE i \in DOMAIN msgs : msgs[i].id = id]

\* recentlyToggledReactions of one process is a function from <<messageId, emoji,
\* username>> to [added, timestamp]
ToggleActive(toggles, k, t) ==
    /\ k \in DOMAIN toggles
    /\ ~(t - toggles[k].timestamp > REACTION_TOGGLE_PROTECTION_DURATION)

\* getRecentReactionToggle(...) returns a toggle whose added flag is false
RecentlyRemoved(toggles, k, t) == ToggleActive(toggles, k, t) /\ ~toggles[k].added

DiskEditIsNewer_Always(ourMsg, diskMsg) == TRUE

\* both have editedAt and the disk's is the later one
DiskEditIsNewer(ourMsg, diskMsg) ==
    diskMsg.editedAt # 0 /\ ourMsg.editedAt # 0 /\ diskMsg.editedAt > ourMsg.editedAt

mergeMessageUpdates(toggles, ourMsg, diskMsg, t) ==
    LET key(pr) == <<ourMsg.id, pr[1], pr[2]>>
        fromOurs == IF ourMsg.reactions.def THEN ourMsg.reactions.pairs ELSE {}
        fromDisk == IF diskMsg.reactions.def
                    THEN {pr \in diskMsg.reactions.pairs : ~RecentlyRemoved(toggles, key(pr), t)}
                    ELSE {}
        forced == {<<k[2], k[3]>> : k \in {kk \in DOMAIN toggles :
                      kk[1] = ourMsg.id /\ ToggleActive(toggles, kk, t) /\ toggles[kk].added}}
        merged == ReactionsOrUndef(fromOurs \cup fromDisk \cup forced)
        \* disk has no reactions at all and we do
        r1 == IF ~diskMsg.reactions.def /\ ourMsg.reactions.def /\ ourMsg.reactions.pairs # {}
              THEN IF diskMsg.deleted
                      \/ (diskMsg.editedAt # 0 /\ ourMsg.editedAt # 0
                          /\ diskMsg.editedAt > ourMsg.editedAt)
                   THEN NoReactions
                   ELSE merged
              ELSE merged
        m1 == [ourMsg EXCEPT !.reactions = r1]
        \* === MERGE EDITED STATE ===
        m2 == IF diskMsg.edited
              THEN IF ~m1.edited
                   THEN [m1 EXCEPT !.edited = diskMsg.edited, !.editedAt = diskMsg.editedAt,
                            !.message = diskMsg.message, !.mentions = diskMsg.mentions,
                            !.fileLinks = diskMsg.fileLinks,
                            !.channelMentions = diskMsg.channelMentions]
                   ELSE IF DiskEditIsNewer(m1, diskMsg)
                        THEN [m1 EXCEPT !.editedAt = diskMsg.editedAt,
                                 !.message = diskMsg.message, !.mentions = diskMsg.mentions,
                                 !.fileLinks = diskMsg.fileLinks,
                                 !.channelMentions = diskMsg.channelMentions]
                        ELSE m1
              ELSE m1
        \* === MERGE DELETED STATE ===
    IN  IF diskMsg.deleted /\ ~m2.deleted
        THEN [m2 EXCEPT !.deleted = diskMsg.deleted, !.message = "", !.images = Undef,
                 !.fileLinks = Undef, !.mentions = Undef, !.channelMentions = Undef,
                 !.reactions = NoReactions]
        ELSE m2

\* the lazy expiry done by mergeMessageUpdates on the toggles of one message
ExpireToggles(toggles, ids, t) ==
    Restrict(toggles, {k \in DOMAIN toggles : ~(k[1] \in ids /\ ~ToggleActive(toggles, k, t))})

\* insert m after every element whose timestamp is not greater (stable)
InsertByTimestamp(sorted, m) ==
    LET notLater == {i \in DOMAIN sorted : sorted[i].timestamp <= m.timestamp}
        k == IF notLater = {} THEN 0 ELSE CHOOSE i \in notLater : \A j \in notLater : j <= i
    IN  SubSeq(sorted, 1, k) \o <<m>> \o SubSeq(sorted, k + 1, Len(sorted))

RECURSIVE InsertAllByTimestamp(_, _)
\* the messages of msgs inserted into sorted one after the other, first to last
InsertAllByTimestamp(sorted, msgs) ==
    IF msgs = <<>> THEN sorted
    ELSE IF Len(msgs) = 1 THEN InsertByTimestamp(sorted, msgs[1])
    ELSE LET mid == Len(msgs) \div 2
             left == InsertAllByTimestamp(sorted, SubSeq(msgs, 1, mid))
         IN  IF Len(left) >= 0
             THEN InsertAllByTimestamp(left, SubSeq(msgs, mid + 1, Len(msgs)))
             ELSE left

\* Array.prototype.sort with (a, b) => time(a) - time(b): stable, ascending
SortByTimestamp(msgs) == InsertAllByTimestamp(<<>>, msgs)

IsSortedByTimestamp(msgs) ==
    \A i \in 1..(Len(msgs) - 1) : msgs[i].timestamp <= msgs[i + 1].timestamp

\* isRecentlyDismissed: recentlyDismissedMessages is a function messageId -> time
isRecentlyDismissed(dismissed, id, t) ==
    /\ id \in DOMAIN dismissed
    /\ ~(t - dismissed[id] > DISMISS_PROTECTION_DURATION)

RECURSIVE MergeMessageList(_, _, _, _, _, _)
\* the loop "for (const diskMsg of diskData.channelMessages[channelId])" of loadChat
\* and saveChat.  known is the key set of ourMessageMap, built before the loop;
\* skip is the set of ids the caller passes over (recently dismissed, loadChat only)
MergeMessageList(toggles, ours, known, diskMsgs, skip, t) ==
    IF diskMsgs = <<>> THEN ours
    ELSE IF Len(diskMsgs) > 1
    THEN LET mid == Len(diskMsgs) \div 2
             left == MergeMessageList(toggles, ours, known, SubSeq(diskMsgs, 1, mid), skip, t)
         IN  IF Len(left) >= 0
             THEN MergeMessageList(toggles, left, known,
                                   SubSeq(diskMsgs, mid + 1, Len(diskMsgs)), skip, t)
             ELSE left
    ELSE LET d == diskMsgs[1]
             \* Map keeps the last entry of a repeated key
             at == CHOOSE i \in DOMAIN ours :
                       /\ ours[i].id = d.id
                       /\ \A j \in DOMAIN ours : (j > i /\ j <= Len(ours)) => ours[j].id # d.id
             next == IF d.id \in skip THEN ours
                     ELSE IF d.id \notin known THEN Append(ours, d)
                     ELSE [ours EXCEPT ![at] = mergeMessageUpdates(toggles, ours[at], d, t)]
         IN  next

\* ------------------------------------------------------------------------
\* The chat document (ChatDataV2)
\*   channels        : function channelId -> [type, name, members, createdBy, createdAt]
\*   channelMessages : function channelId -> sequence of messages
\*   readState       : function channelId -> (function username -> timestamp)
\*   mutedChannels   : [def, map], map a function username -> set of channelIds
\*   deletedChannels : function channelId -> [deletedAt, deletedBy]
\*   checksum        : the _checksum field, NoChecksum when absent
\* ------------------------------------------------------------------------
EmptyMap == <<>>

createEmptyV2Data(t) ==
    [version |-> 2,
     channels |-> (GENERAL_CHANNEL_ID :> [type |-> "general", name |-> "General",
                                          members |-> {}, createdBy |-> System,
                                          createdAt |-> t]),
     channelMessages |-> (GENERAL_CHANNEL_ID :> <<>>),
     readState |-> (GENERAL_CHANNEL_ID :> EmptyMap),
     mutedChannels |-> [def |-> FALSE, map |-> EmptyMap],
     deletedChannels |-> EmptyMap,
     checksum |-> NoChecksum]

\* ---- JSON.stringify, as a sequence of character codes --------------------
\* ids of the messages of a channel that is filled up to the cap
HistoryIds == [i \in 1..MAX_MESSAGES_PER_CHANNEL |-> "h" \o ToString(i)]

BaseStrings == << "", "general", "c1", "alice", "bob", "carol", "system", "+1",
                 "m0", "m1", "m2", "hi", "e1", "e2", "@bob", "[[note]]", "undef",
                 "group", "dm", "General", "s1", "s2", "alice, bob", "team", "sys", "bad" >>
AllStrings == BaseStrings \o HistoryIds
StrCodeTable ==
    [str \in Range(AllStrings) |-> 32 + (CHOOSE i \in DOMAIN AllStrings : AllStrings[i] = str)]
StrCode(str) == StrCodeTable[str]

RECURSIVE Digits(_)
Digits(n) == IF n < 10 THEN <<n>> ELSE Digits(n \div 10) \o <<n % 10>>

\* a defined optional string field: tag, value; an undefined one is left out
OptStr(tag, v) == IF v = Undef THEN <<>> ELSE <<tag, StrCode(v)>>

StringifyReactions(r) ==
    IF ~r.def THEN <<>>
    ELSE <<10>> \o FlatMap(LAMBDA e :
              LET us == SeqOfSet(UserOrder, {u \in Users : <<e, u>> \in r.pairs})
              IN  IF us = <<>> THEN <<>>
                  ELSE <<StrCode(e)>> \o [i \in DOMAIN us |-> StrCode(us[i])],
              EmojiOrder) \o <<11>>

StringifyMessage(m) ==
    <<12, StrCode(m.id), StrCode(m.from), StrCode(m.message)>> \o Digits(m.timestamp)
    \o OptStr(13, m.fileLinks) \o OptStr(14, m.mentions)
    \o OptStr(15, m.channelMentions) \o OptStr(16, m.images)
    \o StringifyReactions(m.reactions)
    \o (IF m.edited THEN <<17>> ELSE <<>>)
    \o (IF m.editedAt # 0 THEN <<18>> \o Digits(m.editedAt) ELSE <<>>)
    \o (IF m.deleted THEN <<19>> ELSE <<>>)

StringifyChannel(doc, c) ==
    LET ch == doc.channels[c]
        ms == SeqOfSet(UserOrder, ch.members)
    IN  <<20, StrCode(c), StrCode(ch.type), StrCode(ch.name)>>
        \o [i \in DOMAIN ms |-> StrCode(ms[i])]
        \o <<StrCode(ch.createdBy)>> \o Digits(ch.createdAt)

StringifyMessages(doc, c) ==
    <<21, StrCode(c)>> \o FlatMap(StringifyMessage, doc.channelMessages[c])

StringifyReadState(doc, c) ==
    <<22, StrCode(c)>>
    \o FlatMap(LAMBDA u : <<StrCode(u)>> \o Digits(doc.readState[c][u]),
               SeqOfSet(UserOrder, DOMAIN doc.readState[c]))

StringifyMutes(doc) ==
    IF ~doc.mutedChannels.def THEN <<>>
    ELSE <<23>> \o FlatMap(LAMBDA u :
              LET cs == SeqOfSet(ChannelOrder, doc.mutedChannels.map[u])
              IN  <<StrCode(u)>> \o [i \in DOMAIN cs |-> StrCode(cs[i])] \o <<24>>,
              SeqOfSet(UserOrder, DOMAIN doc.mutedChannels.map))

StringifyTombstones(doc) ==
    <<25>> \o FlatMap(LAMBDA c : <<StrCode(c), StrCode(doc.deletedChannels[c].deletedBy)>>
                                 \o Digits(doc.deletedChannels[c].deletedAt),
                      SeqOfSet(ChannelOrder, DOMAIN doc.deletedChannels))

\* JSON.stringify(dataWithoutChecksum)
StringifyWithoutChecksum(doc) ==
    <<doc.version>>
    \o FlatMap(LAMBDA c : StringifyChannel(doc, c), SeqOfSet(ChannelOrder, DOMAIN doc.channels))
    \o FlatMap(LAMBDA c : StringifyMessages(doc, c),
               SeqOfSet(ChannelOrder, DOMAIN doc.channelMessages))
    \o FlatMap(LAMBDA c : StringifyReadState(doc, c),
               SeqOfSet(ChannelOrder, DOMAIN doc.readState))
    \o StringifyMutes(doc)
    \o StringifyTombstones(doc)

\* JSON.stringify(this.chatData, null, 2): the file content, _checksum last
Stringify(doc) ==
    StringifyWithoutChecksum(doc)
    \o (IF doc.checksum = NoChecksum THEN <<>> ELSE <<26, doc.checksum[1] % 256,
            doc.checksum[1] \div 256, doc.checksum[2] % 256, doc.checksum[2] \div 256>>)

\* the checksum taken without "delete dataWithoutChecksum._checksum" (line 63)
computeDataChecksum_KeepsField(doc) == computeHash(Stringify(doc))

computeDataChecksum(doc) == computeHash(StringifyWithoutChecksum(doc))

validateDataIntegrity(doc) ==
    IF doc.checksum = NoChecksum THEN TRUE
    ELSE doc.checksum = computeDataChecksum(doc)

\* ------------------------------------------------------------------------
\* Protection ledgers of one process (functions key -> time)
\* ------------------------------------------------------------------------
\* hasRecentlyLeftChannel
hasRecentlyLeftChannel(left, c, t) ==
    c \in DOMAIN left /\ ~(t - left[c] > LEAVE_PROTECTION_DURATION)

\* getRecentlyAddedMembers: recentlyAddedMembers is a function <<channelId, user>> -> time
getRecentlyAddedMembers_EndsAtTTL(added, c, t) ==
    {u \in Users : <<c, u>> \in DOMAIN added
                   /\ t - added[<<c, u>>] < ADD_MEMBER_PROTECTION_DURATION}

getRecentlyAddedMembers(added, c, t) ==
    {u \in Users : <<c, u>> \in DOMAIN added
                   /\ t - added[<<c, u>>] <= ADD_MEMBER_PROTECTION_DURATION}

\* isRecentlyDeletedChannel(channelId): memory cache first, then the tombstones
isRecentlyDeletedChannel(cache, tombstones, c, t) ==
    \/ (c \in DOMAIN cache /\ t - cache[c] <= CHANNEL_DELETE_PROTECTION)
    \/ (c \in DOMAIN tombstones
        /\ t - tombstones[c].deletedAt <= DELETED_CHANNEL_RETENTION_MS)

\* the cache after isRecentlyDeletedChannel has been asked about every channel of cs
DeletedCacheAfter(cache, tombstones, cs, t) ==
    LET fresh(c) == c \in DOMAIN cache /\ t - cache[c] <= CHANNEL_DELETE_PROTECTION
        persisted(c) == c \in DOMAIN tombstones
                        /\ t - tombstones[c].deletedAt <= DELETED_CHANNEL_RETENTION_MS
        keep == {c \in DOMAIN cache : c \notin cs \/ fresh(c)}
        refreshed == {c \in cs : ~fresh(c) /\ persisted(c)}
    IN  [c \in keep \cup refreshed |->
            IF c \in refreshed THEN tombstones[c].deletedAt ELSE cache[c]]

RECURSIVE EnsureLoop(_, _, _, _)
EnsureLoop(doc, sent, ids, t) ==
    IF ids = <<>> THEN doc
    ELSE LET id == Head(ids)
             e == sent[id]
             cm0 == IF e.channelId \in DOMAIN doc.channelMessages
                    THEN doc.channelMessages
                    ELSE With(doc.channelMessages, e.channelId, <<>>)
             cm1 == IF id \in MsgIdsOf(cm0[e.channelId]) THEN cm0
                    ELSE [cm0 EXCEPT ![e.channelId] = SortByTimestamp(Append(@, e.message))]
         IN  EnsureLoop([doc EXCEPT !.channelMessages = cm1], sent, Tail(ids), t)

MsgOrder == <<"m0", "m1", "m2", "s1", "s2">>

LiveSent(sent, t) ==
    {id \in DOMAIN sent : ~(t - sent[id].timestamp > MESSAGE_PROTECTION_DURATION)}

\* ensureRecentMessagesExist: the document afterwards.  recentlySentMessages is a
\* function messageId -> [channelId, message, timestamp].
ensureRecentMessagesExist_Skipped(doc, sent, t) == doc

ensureRecentMessagesExist(doc, sent, t) ==
    EnsureLoop(doc, sent, SeqOfSet(MsgOrder, LiveSent(sent, t)), t)

\* ... and the ledger afterwards (old entries are dropped)
SentAfterEnsure(sent, t) == Restrict(sent, LiveSent(sent, t))

\* ------------------------------------------------------------------------
\* Merging a disk document into the in-memory one
\* ------------------------------------------------------------------------
\* "Merge read state - take the later timestamp for each user" (loadChat, saveChat)
MergeReadState(ours, disk) ==
    [c \in DOMAIN ours \cup DOMAIN disk |->
        IF c \notin DOMAIN ours THEN disk[c]
        ELSE IF c \notin DOMAIN disk THEN ours[c]
        ELSE [u \in DOMAIN ours[c] \cup DOMAIN disk[c] |->
                IF u \notin DOMAIN disk[c] THEN ours[c][u]
                ELSE IF u \notin DOMAIN ours[c] \/ disk[c][u] > ours[c][u]
                     THEN disk[c][u] ELSE ours[c][u]]]

\* "Merge muted channels" (loadChat, saveChat): per-user union
MergeMutes(ours, disk) ==
    IF ~disk.def THEN ours
    ELSE [def |-> TRUE,
          map |-> [u \in DOMAIN ours.map \cup DOMAIN disk.map |->
                     (IF u \in DOMAIN ours.map THEN ours.map[u] ELSE {})
                     \cup (IF u \in DOMAIN disk.map THEN disk.map[u] ELSE {})]]

\* tombstones of disk that memory does not have, added to memory's
MergeTombstones(ours, disk) ==
    [c \in DOMAIN ours \cup DOMAIN disk |-> IF c \in DOMAIN ours THEN ours[c] ELSE disk[c]]

\* the message part of saveChat's merge (lines 646-672)
SaveMergeMessages_PushesAll(toggles, ours, disk, t) ==
    [c \in DOMAIN ours \cup DOMAIN disk |->
        IF c \notin DOMAIN disk THEN ours[c]
        ELSE IF c \notin DOMAIN ours THEN disk[c]
        ELSE SortByTimestamp(ours[c] \o disk[c])]

SaveMergeMessages(toggles, ours, disk, t) ==
    [c \in DOMAIN ours \cup DOMAIN disk |->
        IF c \notin DOMAIN disk THEN ours[c]
        ELSE IF c \notin DOMAIN ours THEN disk[c]
        ELSE SortByTimestamp(
                 MergeMessageList(toggles, ours[c], MsgIdsOf(ours[c]), disk[c], {}, t))]

\* the message part of loadChat's merge (lines 529-560)
LoadMergeMessages_TakesDisk(toggles, dismissed, ours, disk, t) ==
    [c \in DOMAIN ours \cup DOMAIN disk |-> IF c \in DOMAIN disk THEN disk[c] ELSE ours[c]]

LoadMergeMessages(toggles, dismissed, ours, disk, t) ==
    LET skip == {id \in MsgIds \cup {"s1", "s2"} : isRecentlyDismissed(dismissed, id, t)}
    IN  [c \in DOMAIN ours \cup DOMAIN disk |->
            IF c \notin DOMAIN disk THEN ours[c]
            ELSE IF c \notin DOMAIN ours
                 THEN SelectSeq(disk[c], LAMBDA m : m.id \notin skip)
                 ELSE SortByTimestamp(
                          MergeMessageList(toggles, ours[c], MsgIdsOf(ours[c]), disk[c], skip, t))]

\* ids of the messages that exist on both sides (mergeMessageUpdates ran on them)
MergedIds(ours, disk, skip) ==
    UNION {MsgIdsOf(ours[c]) \cap (MsgIdsOf(disk[c]) \ skip) : c \in DOMAIN ours \cap DOMAIN disk}

\* the merge of saveChat (lines 636-720): memory afterwards
SaveMerge(doc, disk, toggles, t) ==
    [doc EXCEPT
        !.channelMessages = SaveMergeMessages(toggles, doc.channelMessages, disk.channelMessages, t),
        !.readState = MergeReadState(doc.readState, disk.readState),
        !.deletedChannels = MergeTombstones(doc.deletedChannels, disk.deletedChannels),
        !.mutedChannels = MergeMutes(doc.mutedChannels, disk.mutedChannels)]

\* the members loadChat gives channel c (lines 470-486 and 496-518): disk's list,
\* minus the current user after a recent leave, plus the recently added members
MergedMembers_NoLeaveFilter(diskMembers, left, added, c, me, t) ==
    diskMembers \cup getRecentlyAddedMembers(added, c, t)

MergedMembers(diskMembers, left, added, c, me, t) ==
    (IF hasRecentlyLeftChannel(left, c, t) THEN diskMembers \ {me} ELSE diskMembers)
    \cup getRecentlyAddedMembers(added, c, t)

\* the merge of loadChat (lines 395-603) followed by ensureRecentMessagesExist
\* (line 612): the in-memory document and the ledgers afterwards
\* "Only remove channels that are EXPLICITLY marked as deleted" (lines 429-440)
ChannelsToRemove_NoGeneralGuard(ours, diskChannels, tombstones) ==
    {c \in DOMAIN ours : c \notin DOMAIN diskChannels /\ c \in DOMAIN tombstones}

ChannelsToRemove(ours, diskChannels, tombstones) ==
    {c \in DOMAIN ours :
        /\ c # GENERAL_CHANNEL_ID
        /\ c \notin DOMAIN diskChannels
        /\ c \in DOMAIN tombstones}

LoadMerge(doc, disk, cache, left, added, toggles, dismissed, sent, me, t) ==
    LET newTombs == DOMAIN disk.deletedChannels \ DOMAIN doc.deletedChannels
        tomb0 == MergeTombstones(doc.deletedChannels, disk.deletedChannels)
        cache1 == [c \in DOMAIN cache \cup newTombs |->
                     IF c \in newTombs THEN disk.deletedChannels[c].deletedAt ELSE cache[c]]
        \* "Clean up old deleted channel records"
        tomb1 == Restrict(tomb0, {c \in DOMAIN tomb0 :
                                    t - tomb0[c].deletedAt < DELETED_CHANNEL_RETENTION_MS})
        toRemove == ChannelsToRemove(doc.channels, disk.channels, tomb1)
        channels1 == Restrict(doc.channels, DOMAIN doc.channels \ toRemove)
        messages1 == Restrict(doc.channelMessages, DOMAIN doc.channelMessages \ toRemove)
        readState1 == Restrict(doc.readState, DOMAIN doc.readState \ toRemove)
        \* "Merge channels from disk"
        considered == {c \in DOMAIN disk.channels :
                          ~isRecentlyDeletedChannel(cache1, tomb1, c, t)}
        channels2 ==
            [c \in DOMAIN channels1 \cup considered |->
                IF c \notin considered THEN channels1[c]
                ELSE IF c \notin DOMAIN channels1
                THEN [disk.channels[c] EXCEPT
                         !.members = MergedMembers(disk.channels[c].members, left, added, c, me, t)]
                ELSE [channels1[c] EXCEPT
                         !.members = MergedMembers(disk.channels[c].members, left, added, c, me, t),
                         !.name = IF disk.channels[c].name # @ /\ disk.channels[c].type = "group"
                                  THEN disk.channels[c].name ELSE @]]
        skip == {id \in DOMAIN dismissed : isRecentlyDismissed(dismissed, id, t)}
        diskIds == UNION {MsgIdsOf(disk.channelMessages[c]) : c \in DOMAIN disk.channelMessages}
        merged == [doc EXCEPT
                      !.channels = channels2,
                      !.channelMessages = LoadMergeMessages(toggles, dismissed, messages1,
                                                            disk.channelMessages, t),
                      !.readState = MergeReadState(readState1, disk.readState),
                      !.mutedChannels = MergeMutes(doc.mutedChannels, disk.mutedChannels),
                      !.deletedChannels = tomb1]
    IN  [doc |-> ensureRecentMessagesExist(merged, sent, t),
         cache |-> DeletedCacheAfter(cache1, tomb1, DOMAIN disk.channels, t),
         left |-> Restrict(left, {c \in DOMAIN left :
                                    c \notin considered \/ hasRecentlyLeftChannel(left, c, t)}),
         added |-> Restrict(added, {k \in DOMAIN added :
                                      k[1] \notin considered
                                      \/ t - added[k] <= ADD_MEMBER_PROTECTION_DURATION}),
         toggles |-> ExpireToggles(toggles, MergedIds(messages1, disk.channelMessages, skip), t),
         dismissed |-> Restrict(dismissed, {id \in DOMAIN dismissed :
                                              id \notin diskIds \/ id \in skip}),
         sent |-> SentAfterEnsure(sent, t)]

\* ------------------------------------------------------------------------
\* State
\* ------------------------------------------------------------------------
VARIABLES
    now,                        \* Date.now()
    ticks,                      \* clock advances so far
    chatFile,                   \* chat.json: [exists, doc]
    corruptLeft,                \* damaged reads the storage layer may still produce
    chatData,                   \* per process: this.chatData
    recentlySentMessages,       \* per process: messageId -> [channelId, message, timestamp]
    recentlyDismissedMessages,  \* per process: messageId -> time
    recentlyDeletedChannels,    \* per process: channelId -> time
    recentlyLeftChannels,       \* per process: channelId -> time
    recentlyAddedMembers,       \* per process: <<channelId, username>> -> time
    recentlyToggledReactions,   \* per process: <<messageId, emoji, username>> -> [added, timestamp]
    pc,                         \* per process: the await the chat operation is parked at
    op,                         \* per process: the operation in flight, "none" when idle
    attempt,                    \* per process: loop counter of the retry loop in progress
    content,                    \* per process: the document saveChat is writing
    loaded,                     \* per process: the reads loadChat made since the last local change
    usedIds,                    \* ids generateId has handed out
    calls                       \* operations started so far

ledgerVars == <<recentlySentMessages, recentlyDismissedMessages, recentlyDeletedChannels,
                recentlyLeftChannels, recentlyAddedMembers, recentlyToggledReactions>>
chatVars == <<now, ticks, chatFile, corruptLeft, chatData, ledgerVars, pc, op, attempt,
              content, loaded, usedIds, calls>>

\* ------------------------------------------------------------------------
\* Chat operations.  Each action is the code between two awaits.
\* ------------------------------------------------------------------------
Me(p) == CurrentUserOf[p]

Tick(d) ==
    /\ ticks < MaxTicks
    /\ now' = now + d
    /\ ticks' = ticks + 1
    /\ UNCHANGED <<chatFile, corruptLeft, chatData, ledgerVars, pc, op, attempt, content,
                   loaded, usedIds, calls>>

\* the tail of every mutating operation: "await this.saveChat()"
CallSave(p, name) ==
    /\ calls < MaxCalls
    /\ calls' = calls + 1
    /\ pc' = [pc EXCEPT ![p] = "save_read"]
    /\ op' = [op EXCEPT ![p] = name]
    /\ loaded' = [loaded EXCEPT ![p] = <<>>]
    /\ UNCHANGED <<now, ticks, chatFile, corruptLeft, attempt, content>>

\* "Keep only last MAX_MESSAGES_PER_CHANNEL"
KeepLast(msgs) ==
    IF Len(msgs) > MAX_MESSAGES_PER_CHANNEL
    THEN SubSeq(msgs, Len(msgs) - MAX_MESSAGES_PER_CHANNEL + 1, Len(msgs))
    ELSE msgs

\* sendMessage(message, fileLinks, images, channelId)
sendMessage(p, id, text, c) ==
    /\ pc[p] = "idle"
    /\ id \notin usedIds
    /\ LET msg == NewMessage(id, Me(p), text, now)
           cm == IF c \in DOMAIN chatData[p].channelMessages
                 THEN chatData[p].channelMessages
                 ELSE With(chatData[p].channelMessages, c, <<>>)
       IN  /\ recentlySentMessages' = [recentlySentMessages EXCEPT ![p] =
                  With(@, id, [channelId |-> c, message |-> msg, timestamp |-> now])]
           /\ chatData' = [chatData EXCEPT ![p].channelMessages =
                  [cm EXCEPT ![c] = KeepLast(Append(@, msg))]]
    /\ usedIds' = usedIds \cup {id}
    /\ CallSave(p, "sendMessage")
    /\ UNCHANGED <<recentlyDismissedMessages, recentlyDeletedChannels, recentlyLeftChannels,
                   recentlyAddedMembers, recentlyToggledReactions>>

\* replace the message with this id in channel c of a document
SetMessage(doc, c, m) ==
    [doc EXCEPT !.channelMessages[c] =
        [i \in DOMAIN @ |-> IF @[i].id = m.id THEN m ELSE @[i]]]

\* the ledger entry of a sent message holds the message object itself
TouchSent(sent, m) ==
    IF m.id \in DOMAIN sent THEN [sent EXCEPT ![m.id].message = m] ELSE sent

\* editMessage(messageId, newContent, channelId)
editMessage(p, id, text, c) ==
    /\ pc[p] = "idle"
    /\ c \in DOMAIN chatData[p].channelMessages
    /\ id \in MsgIdsOf(chatData[p].channelMessages[c])
    /\ LET m == MsgById(chatData[p].channelMessages[c], id)
           e == [m EXCEPT !.message = text, !.edited = TRUE, !.editedAt = now,
                          !.mentions = extractMentions(text),
                          !.fileLinks = extractFileLinks(text),
                          !.channelMentions = extractChannelMentions(text)]
       IN  /\ m.from = Me(p)
           /\ ~m.deleted
           /\ chatData' = [chatData EXCEPT ![p] = SetMessage(@, c, e)]
           /\ recentlySentMessages' = [recentlySentMessages EXCEPT ![p] = TouchSent(@, e)]
    /\ CallSave(p, "editMessage")
    /\ UNCHANGED <<recentlyDismissedMessages, recentlyDeletedChannels, recentlyLeftChannels,
                   recentlyAddedMembers, recentlyToggledReactions, usedIds>>

\* deleteMessage(messageId, channelId)
deleteMessage(p, id, c) ==
    /\ pc[p] = "idle"
    /\ c \in DOMAIN chatData[p].channelMessages
    /\ id \in MsgIdsOf(chatData[p].channelMessages[c])
    /\ LET m == MsgById(chatData[p].channelMessages[c], id)
           e == [m EXCEPT !.deleted = TRUE, !.message = "", !.images = Undef,
                          !.fileLinks = Undef, !.mentions = Undef,
                          !.channelMentions = Undef]
       IN  /\ m.from = Me(p) \/ IsCurrentUserAdmin[p]
           /\ chatData' = [chatData EXCEPT ![p] = SetMessage(@, c, e)]
           /\ recentlySentMessages' = [recentlySentMessages EXCEPT ![p] = TouchSent(@, e)]
    /\ CallSave(p, "deleteMessage")
    /\ UNCHANGED <<recentlyDismissedMessages, recentlyDeletedChannels, recentlyLeftChannels,
                   recentlyAddedMembers, recentlyToggledReactions, usedIds>>

\* toggleReaction(messageId, emoji, channelId)
toggleReaction(p, id, emoji, c) ==
    /\ pc[p] = "idle"
    /\ c \in DOMAIN chatData[p].channelMessages
    /\ id \in MsgIdsOf(chatData[p].channelMessages[c])
    /\ LET m == MsgById(chatData[p].channelMessages[c], id)
           pr == <<emoji, Me(p)>>
           had == m.reactions.def /\ pr \in m.reactions.pairs
           \* an emptied list stays an empty array, it is not reset to undefined
           e == [m EXCEPT !.reactions = [def |-> TRUE,
                     pairs |-> IF had THEN m.reactions.pairs \ {pr}
                               ELSE m.reactions.pairs \cup {pr}]]
       IN  /\ chatData' = [chatData EXCEPT ![p] = SetMessage(@, c, e)]
           /\ recentlySentMessages' = [recentlySentMessages EXCEPT ![p] = TouchSent(@, e)]
           \* trackReactionToggle
           /\ recentlyToggledReactions' = [recentlyToggledReactions EXCEPT ![p] =
                  With(@, <<id, emoji, Me(p)>>, [added |-> ~had, timestamp |-> now])]
    /\ CallSave(p, "toggleReaction")
    /\ UNCHANGED <<recentlyDismissedMessages, recentlyDeletedChannels, recentlyLeftChannels,
                   recentlyAddedMembers, usedIds>>

\* ensureChannelLists: channelMessages / readState entries of a new channel
NewChannelDoc(doc, c, ch) ==
    [doc EXCEPT !.channels = With(@, c, ch),
                !.channelMessages = With(@, c, <<>>),
                !.readState = With(@, c, EmptyMap)]

\* trackMemberAdded for every user of us
TrackAdded(added, c, us, t) ==
    [k \in DOMAIN added \cup {<<c, u>> : u \in us} |->
        IF k[1] = c /\ k[2] \in us THEN t ELSE added[k]]

\* createGroupChannel(name, members, createdBy)
createGroupChannel(p, c, name, members) ==
    /\ pc[p] = "idle"
    /\ c \notin usedIds
    /\ chatData' = [chatData EXCEPT ![p] =
           NewChannelDoc(@, c, [type |-> "group", name |-> name, members |-> members,
                                createdBy |-> Me(p), createdAt |-> now])]
    /\ recentlyAddedMembers' = [recentlyAddedMembers EXCEPT ![p] = TrackAdded(@, c, members, now)]
    /\ usedIds' = usedIds \cup {c}
    /\ CallSave(p, "createGroupChannel")
    /\ UNCHANGED <<recentlySentMessages, recentlyDismissedMessages, recentlyDeletedChannels,
                   recentlyLeftChannels, recentlyToggledReactions>>

\* startDM(initiator, recipient), when no DM of the two exists yet
startDM(p, c, recipient) ==
    /\ pc[p] = "idle"
    /\ c \notin usedIds
    /\ recipient # Me(p)
    /\ ~\E x \in DOMAIN chatData[p].channels :
           /\ chatData[p].channels[x].type = "dm"
           /\ chatData[p].channels[x].members = {Me(p), recipient}
    /\ chatData' = [chatData EXCEPT ![p] =
           NewChannelDoc(@, c, [type |-> "dm", name |-> "", members |-> {Me(p), recipient},
                                createdBy |-> Me(p), createdAt |-> now])]
    /\ recentlyAddedMembers' = [recentlyAddedMembers EXCEPT ![p] =
           TrackAdded(@, c, {Me(p), recipient}, now)]
    /\ usedIds' = usedIds \cup {c}
    /\ CallSave(p, "startDM")
    /\ UNCHANGED <<recentlySentMessages, recentlyDismissedMessages, recentlyDeletedChannels,
                   recentlyLeftChannels, recentlyToggledReactions>>

\* the default name of a promoted DM: channel.members.join(', ')
JoinedName(members) == IF members = {"alice", "bob"} THEN "alice, bob" ELSE "team"

\* addMemberToChannel(channelId, newMember, addedBy), past its early returns
addMemberToChannel(p, c, newMember, sysId) ==
    /\ pc[p] = "idle"
    /\ c \in DOMAIN chatData[p].channels
    /\ chatData[p].channels[c].type # "general"
    /\ newMember \notin chatData[p].channels[c].members
    /\ c \in DOMAIN chatData[p].channelMessages
    /\ sysId \notin usedIds
    /\ LET ch == chatData[p].channels[c]
           ch1 == IF ch.type = "dm"
                  THEN [ch EXCEPT !.type = "group", !.name = JoinedName(ch.members)]
                  ELSE ch
           ch2 == [ch1 EXCEPT !.members = @ \cup {newMember}]
           sysMsg == NewMessage(sysId, System, "sys", now)
       IN  chatData' = [chatData EXCEPT ![p].channels[c] = ch2,
                                        ![p].channelMessages[c] = Append(@, sysMsg)]
    /\ recentlyLeftChannels' = [recentlyLeftChannels EXCEPT ![p] =
           IF newMember = Me(p) THEN Restrict(@, DOMAIN @ \ {c}) ELSE @]
    /\ recentlyAddedMembers' = [recentlyAddedMembers EXCEPT ![p] =
           TrackAdded(@, c, {newMember}, now)]
    /\ usedIds' = usedIds \cup {sysId}
    /\ CallSave(p, "addMemberToChannel")
    /\ UNCHANGED <<recentlySentMessages, recentlyDismissedMessages, recentlyDeletedChannels,
                   recentlyToggledReactions>>

\* the body of deleteChannel(channelId) up to its saveChat
DeleteChannelIn(doc, c, by, t) ==
    [doc EXCEPT
        !.deletedChannels = IF c \in DOMAIN @ THEN @
                            ELSE With(@, c, [deletedAt |-> t, deletedBy |-> by]),
        !.channels = Restrict(@, DOMAIN @ \ {c}),
        !.channelMessages = Restrict(@, DOMAIN @ \ {c}),
        !.readState = Restrict(@, DOMAIN @ \ {c})]

\* deleteChannel(channelId)
deleteChannel(p, c) ==
    /\ pc[p] = "idle"
    /\ c # GENERAL_CHANNEL_ID
    /\ c \in DOMAIN chatData[p].channels
    /\ recentlyDeletedChannels' = [recentlyDeletedChannels EXCEPT ![p] = With(@, c, now)]
    /\ chatData' = [chatData EXCEPT ![p] = DeleteChannelIn(@, c, Me(p), now)]
    /\ CallSave(p, "deleteChannel")
    /\ UNCHANGED <<recentlySentMessages, recentlyDismissedMessages, recentlyLeftChannels,
                   recentlyAddedMembers, recentlyToggledReactions, usedIds>>

\* leaveChannel(channelId, username): 'left', or 'deleted' when the channel is
\* left empty and deleteChannel runs
leaveChannel(p, c, username, sysId) ==
    /\ pc[p] = "idle"
    /\ c \in DOMAIN chatData[p].channels
    /\ chatData[p].channels[c].type # "general"
    /\ LET rest == chatData[p].channels[c].members \ {username}
           sysMsg == NewMessage(sysId, System, "sys", now)
       IN  /\ recentlyLeftChannels' = [recentlyLeftChannels EXCEPT ![p] = With(@, c, now)]
           /\ recentlyAddedMembers' = [recentlyAddedMembers EXCEPT ![p] =
                  Restrict(@, DOMAIN @ \ {<<c, username>>})]
           /\ IF rest = {}
              THEN /\ recentlyDeletedChannels' =
                          [recentlyDeletedChannels EXCEPT ![p] = With(@, c, now)]
                   /\ chatData' = [chatData EXCEPT ![p] = DeleteChannelIn(@, c, Me(p), now)]
                   /\ usedIds' = usedIds
                   /\ CallSave(p, "leaveChannel:deleted")
              ELSE /\ sysId \notin usedIds
                   /\ c \in DOMAIN chatData[p].channelMessages
                   /\ chatData' = [chatData EXCEPT ![p].channels[c].members = rest,
                                                   ![p].channelMessages[c] = Append(@, sysMsg)]
                   /\ usedIds' = usedIds \cup {sysId}
                   /\ CallSave(p, "leaveChannel:left")
                   /\ UNCHANGED recentlyDeletedChannels
    /\ UNCHANGED <<recentlySentMessages, recentlyDismissedMessages, recentlyToggledReactions>>

\* ------------------------------------------------------------------------
\* saveChat
\* ------------------------------------------------------------------------
NoContent == createEmptyV2Data(0)

\* saveChat up to its first write (lines 629-741): merge-read, resurrect pass,
\* checksum, serialisation
SaveRead(p) ==
    /\ pc[p] = "save_read"
    /\ LET canMerge == chatFile.exists /\ chatFile.doc.version = 2
           merged == IF canMerge
                     THEN SaveMerge(chatData[p], chatFile.doc, recentlyToggledReactions[p], now)
                     ELSE chatData[p]
           ensured == ensureRecentMessagesExist(merged, recentlySentMessages[p], now)
           summed == [ensured EXCEPT !.checksum = computeDataChecksum(ensured)]
       IN  /\ chatData' = [chatData EXCEPT ![p] = summed]
           /\ content' = [content EXCEPT ![p] = summed]
           /\ recentlyToggledReactions' = [recentlyToggledReactions EXCEPT ![p] =
                  IF canMerge
                  THEN ExpireToggles(@, MergedIds(chatData[p].channelMessages,
                                                  chatFile.doc.channelMessages, {}), now)
                  ELSE @]
           /\ recentlySentMessages' = [recentlySentMessages EXCEPT ![p] = SentAfterEnsure(@, now)]
    /\ pc' = [pc EXCEPT ![p] = "save_write"]
    /\ attempt' = [attempt EXCEPT ![p] = 1]
    /\ UNCHANGED <<now, ticks, chatFile, corruptLeft, op, loaded, usedIds, calls,
                   recentlyDismissedMessages, recentlyDeletedChannels, recentlyLeftChannels,
                   recentlyAddedMembers>>

\* "await this.app.vault.adapter.write(CHAT_FILE, content)"
SaveWrite(p) ==
    /\ pc[p] = "save_write"
    /\ chatFile' = [exists |-> TRUE, doc |-> content[p]]
    /\ pc' = [pc EXCEPT ![p] = "save_verify"]
    /\ UNCHANGED <<now, ticks, corruptLeft, chatData, ledgerVars, op, attempt, content,
                   loaded, usedIds, calls>>

\* the exit test of the save loop (saveChat lines 744-754, saveUsers 614-624):
\* the read-back verified this write, or this was the last attempt
SaveLoopExits_AlwaysRetries(verified, n) == ~(n < MAX_SAVE_RETRIES)

SaveLoopExits(verified, n) == verified \/ ~(n < MAX_SAVE_RETRIES)

\* what runs when saveChat returns to the operation that called it
AfterSave(p) ==
    /\ pc' = [pc EXCEPT ![p] = "idle"]
    /\ op' = [op EXCEPT ![p] = "none"]
    /\ attempt' = [attempt EXCEPT ![p] = 0]
    /\ content' = [content EXCEPT ![p] = NoContent]
    /\ IF op[p] = "loadChat:bootstrap"
       THEN \* loadChat line 612
            /\ chatData' = [chatData EXCEPT ![p] =
                   ensureRecentMessagesExist(@, recentlySentMessages[p], now)]
            /\ recentlySentMessages' = [recentlySentMessages EXCEPT ![p] =
                   SentAfterEnsure(@, now)]
       ELSE UNCHANGED <<chatData, recentlySentMessages>>

\* the read-back of one write: verified, retry, or give up after MAX_SAVE_RETRIES
SaveVerify(p) ==
    /\ pc[p] = "save_verify"
    /\ IF SaveLoopExits(chatFile.exists
                        /\ SameHash(Stringify(content[p]), Stringify(chatFile.doc)), attempt[p])
       THEN AfterSave(p)
       ELSE /\ attempt' = [attempt EXCEPT ![p] = @ + 1]
            /\ pc' = [pc EXCEPT ![p] = "save_write"]
            /\ UNCHANGED <<op, content, chatData, recentlySentMessages>>
    /\ UNCHANGED <<now, ticks, chatFile, corruptLeft, loaded, usedIds, calls,
                   recentlyDismissedMessages, recentlyDeletedChannels, recentlyLeftChannels,
                   recentlyAddedMembers, recentlyToggledReactions>>

\* ------------------------------------------------------------------------
\* loadChat
\* ------------------------------------------------------------------------
\* what a damaged read hands back: the file with foreign bytes in it, here a
\* message that no process ever sent
GarbageMsg == NewMessage("bad", System, "bad", 0)
Damaged(doc) ==
    [doc EXCEPT !.channelMessages[GENERAL_CHANNEL_ID] = Append(@, GarbageMsg)]

\* results of adapter.read + JSON.parse on chat.json
ReadResults ==
    IF ~chatFile.exists
    THEN \* adapter.read throws on a file that is gone
         {[parsed |-> FALSE, damaged |-> FALSE, doc |-> NoContent]}
    ELSE {[parsed |-> TRUE, damaged |-> FALSE, doc |-> chatFile.doc]}
         \cup (IF corruptLeft > 0
               THEN {[parsed |-> FALSE, damaged |-> TRUE, doc |-> NoContent],
                     [parsed |-> TRUE, damaged |-> TRUE, doc |-> Damaged(chatFile.doc)]}
               ELSE {})

\* migrateV1ToV2: a V1 file keeps its messages and read timestamps in the slots
\* of the general channel
migrateV1ToV2(v1, t) ==
    [createEmptyV2Data(t) EXCEPT
        !.channelMessages[GENERAL_CHANNEL_ID] = v1.channelMessages[GENERAL_CHANNEL_ID],
        !.readState[GENERAL_CHANNEL_ID] = v1.readState[GENERAL_CHANNEL_ID]]

\* loadChat up to its first read (lines 332-337, 605-608)
LoadStart(p) ==
    /\ pc[p] = "idle"
    /\ calls < MaxCalls
    /\ calls' = calls + 1
    /\ loaded' = [loaded EXCEPT ![p] = <<>>]
    /\ IF chatFile.exists
       THEN /\ pc' = [pc EXCEPT ![p] = "load_read"]
            /\ op' = [op EXCEPT ![p] = "loadChat"]
            /\ attempt' = [attempt EXCEPT ![p] = 1]
            /\ UNCHANGED chatData
       ELSE /\ chatData' = [chatData EXCEPT ![p] = createEmptyV2Data(now)]
            /\ pc' = [pc EXCEPT ![p] = "save_read"]
            /\ op' = [op EXCEPT ![p] = "loadChat:bootstrap"]
            /\ UNCHANGED attempt
    /\ UNCHANGED <<now, ticks, chatFile, corruptLeft, ledgerVars, content, usedIds>>

\* what loadChat leaves in memory when every read attempt failed (lines 365-375)
KeepExisting_Reset(doc, t) == createEmptyV2Data(t)

KeepExisting(doc, t) == IF DOMAIN doc.channels # {} THEN doc ELSE createEmptyV2Data(t)

\* the acceptance test of one read attempt (lines 345-352)
Accepted_NoValidation(r) == r.parsed

Accepted(r) == r.parsed /\ (r.doc.version = 2 => validateDataIntegrity(r.doc))

\* one read attempt of loadChat and, when it is accepted, everything up to the
\* return (lines 342-612)
LoadRead(p) ==
    /\ pc[p] = "load_read"
    /\ \E r \in ReadResults :
        /\ corruptLeft' = IF r.damaged THEN corruptLeft - 1 ELSE corruptLeft
        /\ loaded' = [loaded EXCEPT ![p] = Append(@, r)]
        /\ IF ~Accepted(r)
           THEN IF attempt[p] < MAX_LOAD_RETRIES
                THEN /\ attempt' = [attempt EXCEPT ![p] = @ + 1]
                     /\ UNCHANGED <<pc, op, chatData, ledgerVars>>
                ELSE \* all attempts failed: keep what we have
                     /\ chatData' = [chatData EXCEPT ![p] = KeepExisting(@, now)]
                     /\ pc' = [pc EXCEPT ![p] = "idle"]
                     /\ op' = [op EXCEPT ![p] = "none"]
                     /\ attempt' = [attempt EXCEPT ![p] = 0]
                     /\ UNCHANGED ledgerVars
           ELSE LET diskData == IF r.doc.version = 2 THEN r.doc ELSE migrateV1ToV2(r.doc, now)
                    m == LoadMerge(chatData[p], diskData, recentlyDeletedChannels[p],
                                   recentlyLeftChannels[p], recentlyAddedMembers[p],
                                   recentlyToggledReactions[p], recentlyDismissedMessages[p],
                                   recentlySentMessages[p], Me(p), now)
                IN  IF DOMAIN chatData[p].channels = {}
                    THEN \* "If we have no data yet, just use disk data"
                         /\ chatData' = [chatData EXCEPT ![p] = diskData]
                         /\ UNCHANGED ledgerVars
                         /\ attempt' = [attempt EXCEPT ![p] = 0]
                         /\ IF r.doc.version = 2
                            THEN /\ pc' = [pc EXCEPT ![p] = "idle"]
                                 /\ op' = [op EXCEPT ![p] = "none"]
                            ELSE /\ pc' = [pc EXCEPT ![p] = "save_read"]
                                 /\ op' = [op EXCEPT ![p] = "loadChat:migrate"]
                    ELSE /\ chatData' = [chatData EXCEPT ![p] = m.doc]
                         /\ recentlyDeletedChannels' = [recentlyDeletedChannels EXCEPT ![p] = m.cache]
                         /\ recentlyLeftChannels' = [recentlyLeftChannels EXCEPT ![p] = m.left]
                         /\ recentlyAddedMembers' = [recentlyAddedMembers EXCEPT ![p] = m.added]
                         /\ recentlyToggledReactions' = [recentlyToggledReactions EXCEPT ![p] = m.toggles]
                         /\ recentlyDismissedMessages' = [recentlyDismissedMessages EXCEPT ![p] = m.dismissed]
                         /\ recentlySentMessages' = [recentlySentMessages EXCEPT ![p] = m.sent]
                         /\ pc' = [pc EXCEPT ![p] = "idle"]
                         /\ op' = [op EXCEPT ![p] = "none"]
                         /\ attempt' = [attempt EXCEPT ![p] = 0]
    /\ UNCHANGED <<now, ticks, chatFile, content, usedIds, calls>>

\* cleanupStaleChannels: direct messages with one member left and nothing said
\* for seven days
SEVEN_DAYS_MS == 7 * 24 * 60 * 60 * 1000

LastActivity(doc, c) ==
    LET messages == IF c \in DOMAIN doc.channelMessages THEN doc.channelMessages[c] ELSE <<>>
    IN  IF messages # <<>> THEN messages[Len(messages)].timestamp
        ELSE doc.channels[c].createdAt

StaleChannels(doc, t) ==
    {c \in DOMAIN doc.channels :
        /\ c # GENERAL_CHANNEL_ID
        /\ doc.channels[c].type = "dm"
        /\ Cardinality(doc.channels[c].members) = 1
        /\ t - LastActivity(doc, c) > SEVEN_DAYS_MS}

\* with nothing stale it returns 0 and changes nothing
cleanupStaleChannels(p) ==
    /\ pc[p] = "idle"
    /\ LET stale == StaleChannels(chatData[p], now)
       IN  /\ stale # {}
           /\ chatData' = [chatData EXCEPT
                  ![p].channels = Restrict(@, DOMAIN @ \ stale),
                  ![p].channelMessages = Restrict(@, DOMAIN @ \ stale),
                  ![p].readState = Restrict(@, DOMAIN @ \ stale)]
    /\ CallSave(p, "cleanupStaleChannels")
    /\ UNCHANGED <<ledgerVars, usedIds>>

\* ========================================================================
\* users.json and users.lock (UserManager)
\*   a user is [vaultName, localIdentifier, registered, registrationNumber,
\*   isAdmin, adminLevel]; registrationNumber 0 is a missing number
\* ========================================================================
\* getLocalIdentifier(): username@hostname of the machine a process runs on
LocalId == [p \in Procs |-> IF p = "A" THEN "idA" ELSE "idB"]
Names == {"Sam", "sam", "Kim"}
\* String.prototype.toLowerCase on the names of the model
toLowerCase(name) == IF name = "Sam" THEN "sam" ELSE IF name = "Kim" THEN "kim" ELSE name

NoUser == [vaultName |-> "", localIdentifier |-> "", registered |-> 0,
           registrationNumber |-> 0, isAdmin |-> FALSE, adminLevel |-> Undef]

RECURSIVE InsertByRegistered(_, _)
InsertByRegistered(sorted, u) ==
    IF sorted = <<>> THEN <<u>>
    ELSE IF sorted[Len(sorted)].registered <= u.registered THEN Append(sorted, u)
    ELSE Append(InsertByRegistered(SubSeq(sorted, 1, Len(sorted) - 1), u), sorted[Len(sorted)])

RECURSIVE SortByRegistered(_)
\* users.sort((a, b) => time(a.registered) - time(b.registered)): stable
SortByRegistered(us) ==
    IF us = <<>> THEN <<>>
    ELSE InsertByRegistered(SortByRegistered(SubSeq(us, 1, Len(us) - 1)), us[Len(us)])

LocalIdsOf(us) == {us[i].localIdentifier : i \in DOMAIN us}
Primaries(us) == {i \in DOMAIN us : us[i].adminLevel = "primary"}

\* isRecentlyDeletedUser: recentlyDeletedUsers is a function localIdentifier -> time
isRecentlyDeletedUser(deleted, id, t) ==
    id \in DOMAIN deleted /\ ~(t - deleted[id] > USER_DELETE_PROTECTION)

\* saveUsers lines 587-599: the pass that leaves one primary admin
OnePrimary_NoDemotion(us) ==
    [i \in DOMAIN us |->
        IF us[i].registrationNumber = 1
        THEN [us[i] EXCEPT !.isAdmin = TRUE, !.adminLevel = "primary"]
        ELSE us[i]]

OnePrimary(us) ==
    [i \in DOMAIN us |->
        IF us[i].registrationNumber = 1
        THEN [us[i] EXCEPT !.isAdmin = TRUE, !.adminLevel = "primary"]
        ELSE IF us[i].adminLevel = "primary"
             THEN [us[i] EXCEPT !.adminLevel = "secondary"]
             ELSE us[i]]

\* the users of disk that memory takes over (saveUsers lines 562-575)
DiskOnlyUsers(ours, disk, deleted, t) ==
    SelectSeq(disk, LAMBDA d :
        /\ d.localIdentifier \notin LocalIdsOf(ours)
        /\ ~isRecentlyDeletedUser(deleted, d.localIdentifier, t))

\* the merge of saveUsers (lines 562-599): memory afterwards
SaveUsersMerge(ours, disk, deleted, t) ==
    LET all == SortByRegistered(ours \o DiskOnlyUsers(ours, disk, deleted, t))
        numbered == [i \in DOMAIN all |-> [all[i] EXCEPT !.registrationNumber = i]]
    IN  OnePrimary(numbered)

\* the ledger after the isRecentlyDeletedUser calls of that merge
DeletedUsersAfter(ours, disk, deleted, t) ==
    Restrict(deleted, {id \in DOMAIN deleted :
        \/ isRecentlyDeletedUser(deleted, id, t)
        \/ ~\E i \in DOMAIN disk : disk[i].localIdentifier = id
                                   /\ id \notin LocalIdsOf(ours)})

\* ensureAdminExists (lines 478-549): the users afterwards
ensureAdminExists(us) ==
    LET sorted == SortByRegistered(us)
        rank(name) == CHOOSE i \in DOMAIN sorted : sorted[i].vaultName = name
                          /\ \A j \in 1..(i - 1) : sorted[j].vaultName # name
        \* Step 1: numbers for those who have none ("find" takes the first of a name)
        firstOfName(i) == \A j \in 1..(i - 1) : us[j].vaultName # us[i].vaultName
        s1 == IF \E i \in DOMAIN us : us[i].registrationNumber = 0
              THEN [i \in DOMAIN us |->
                      IF us[i].registrationNumber = 0 /\ firstOfName(i)
                      THEN [us[i] EXCEPT !.registrationNumber = rank(us[i].vaultName)]
                      ELSE us[i]]
              ELSE us
        \* Step 2: exactly one primary, the one with registration #1
        s2 == IF Cardinality(Primaries(s1)) # 1
              THEN [i \in DOMAIN s1 |->
                      IF s1[i].adminLevel = "primary" /\ s1[i].registrationNumber # 1
                      THEN [s1[i] EXCEPT !.adminLevel = "secondary"] ELSE s1[i]]
              ELSE s1
        first == {i \in DOMAIN s2 : s2[i].registrationNumber = 1
                                    /\ \A j \in 1..(i - 1) : s2[j].registrationNumber # 1}
        s3 == [i \in DOMAIN s2 |->
                 IF i \in first THEN [s2[i] EXCEPT !.isAdmin = TRUE, !.adminLevel = "primary"]
                 ELSE s2[i]]
        \* Step 3: admins without a level become secondary
    IN  [i \in DOMAIN s3 |->
            IF s3[i].isAdmin /\ s3[i].adminLevel = Undef /\ s3[i].registrationNumber # 1
            THEN [s3[i] EXCEPT !.adminLevel = "secondary"] ELSE s3[i]]

VARIABLES
    usersFile,              \* users.json: [exists, users]
    lockFile,               \* users.lock: [exists, holder, timestamp]
    usersConfig,            \* per process: this.usersConfig.users
    currentUser,            \* per process: this.currentUser as [def, live, rec]
    recentlyDeletedUsers,   \* per process: localIdentifier -> time
    uPc,                    \* per process: the await the user operation is parked at
    uCont,                  \* per process: where loadUsers returns to
    sCont,                  \* per process: where saveUsers returns to
    uAttempt,               \* per process: attempt of the save loop
    regAttempt,             \* per process: attempt of the registration loop
    uContent,               \* per process: the users saveUsers is writing
    lockNow,                \* per process: "now" taken at the start of acquireLock
    regName,                \* per process: vaultName of the registerUser in flight or finished
    regResult,              \* per process: what the last registerUser returned
    uAfterRelease           \* per process: where the code goes after releaseLock

userVars == <<usersFile, lockFile, usersConfig, currentUser, recentlyDeletedUsers, uPc,
              uCont, sCont, uAttempt, regAttempt, uContent, lockNow, regName, regResult,
              uAfterRelease>>

\* ---- ReminderManager state ---------------------------------------------------
VARIABLES
    remindersFile,          \* reminders.json: [exists, reminders]
    remindersData,          \* per process: this.remindersData.reminders
    remPc,                  \* per process: the await the reminder operation is parked at
    remUsed                 \* ids the ReminderManager's generateId has handed out

reminderVars == <<remindersFile, remindersData, remPc, remUsed>>

\* ---- MentionParser state -----------------------------------------------------
VARIABLES
    mentionsFile,           \* mentions.json: [exists, data]
    mentionsData,           \* per process: this.mentionsData as [mentions, lastCleanup]
    menPc,                  \* per process: the await the mention operation is parked at
    menOp,                  \* per process: the operation whose saveMentions is running
    menContent,             \* per process: the document saveMentions serialised
    menAttempt,             \* per process: write attempt of saveMentions
    cleaned                 \* per process: ids the running cleanup filtered out

mentionVars == <<mentionsFile, mentionsData, menPc, menOp, menContent, menAttempt, cleaned>>

\* everything outside the ChatManager
restVars == <<userVars, reminderVars, mentionVars>>

vars == <<chatVars, userVars, reminderVars, mentionVars>>

\* ---- JSON.stringify(this.usersConfig, null, 2) ---------------------------
UserStrings == << "", "Sam", "sam", "Kim", "idA", "idB", "idC", "primary", "secondary", "Ann" >>
UserStrCode(str) == 64 + (CHOOSE i \in DOMAIN UserStrings : UserStrings[i] = str)

StringifyUser(u) ==
    <<1, UserStrCode(u.vaultName), UserStrCode(u.localIdentifier)>> \o Digits(u.registered)
    \o <<2>> \o Digits(u.registrationNumber)
    \o <<IF u.isAdmin THEN 3 ELSE 4>>
    \o (IF u.adminLevel = Undef THEN <<>> ELSE <<5, UserStrCode(u.adminLevel)>>)

StringifyUsers(us) == FlatMap(StringifyUser, us)

\* this.currentUser, read through the reference it holds
CurUser(p) == currentUser[p].rec

\* the record this.currentUser points at follows in-place changes of the entry
SyncCur(cu, us, id) ==
    IF cu.def /\ cu.live /\ \E i \in DOMAIN us : us[i].localIdentifier = id
    THEN [cu EXCEPT !.rec = us[CHOOSE i \in DOMAIN us : us[i].localIdentifier = id]]
    ELSE cu

\* ---- acquireLock ----------------------------------------------------------
\* registerUser gives up on this attempt to take the lock (lines 671-682)
AcquireFailed(p) ==
    IF regAttempt[p] < MAX_REGISTRATION_RETRIES
    THEN /\ regAttempt' = [regAttempt EXCEPT ![p] = @ + 1]
         /\ uPc' = [uPc EXCEPT ![p] = "lock_check"]
         /\ UNCHANGED regResult
    ELSE /\ regResult' = [regResult EXCEPT ![p] = "false"]
         /\ uPc' = [uPc EXCEPT ![p] = "idle"]
         /\ UNCHANGED regAttempt

\* registerUser(vaultName): entry
registerUser(p, name) ==
    /\ uPc[p] = "idle"
    /\ uPc' = [uPc EXCEPT ![p] = "lock_check"]
    /\ regAttempt' = [regAttempt EXCEPT ![p] = 1]
    /\ regName' = [regName EXCEPT ![p] = name]
    /\ regResult' = [regResult EXCEPT ![p] = "pending"]
    /\ UNCHANGED <<usersFile, lockFile, usersConfig, currentUser, recentlyDeletedUsers,
                   uCont, sCont, uAttempt, uContent, lockNow, uAfterRelease>>

\* "If lock is stale (older than timeout), we can take it" (line 63)
LockIsStale_Never(lock, t) == FALSE

LockIsStale(lock, t) == t - lock.timestamp > LOCK_TIMEOUT

\* acquireLock lines 51-74: look at the lock file
AcquireCheck(p) ==
    /\ uPc[p] = "lock_check"
    /\ lockNow' = [lockNow EXCEPT ![p] = now]
    /\ IF /\ lockFile.exists
          /\ ~LockIsStale(lockFile, now)
          /\ lockFile.holder # LocalId[p]
       THEN AcquireFailed(p)
       ELSE /\ uPc' = [uPc EXCEPT ![p] = "lock_write"]
            /\ UNCHANGED <<regAttempt, regResult>>
    /\ UNCHANGED <<usersFile, lockFile, usersConfig, currentUser, recentlyDeletedUsers,
                   uCont, sCont, uAttempt, uContent, regName, uAfterRelease>>

\* acquireLock lines 77-81: write our lock
AcquireWrite(p) ==
    /\ uPc[p] = "lock_write"
    /\ lockFile' = [exists |-> TRUE, holder |-> LocalId[p], timestamp |-> lockNow[p]]
    /\ uPc' = [uPc EXCEPT ![p] = "lock_verify"]
    /\ UNCHANGED <<usersFile, usersConfig, currentUser, recentlyDeletedUsers, uCont, sCont,
                   uAttempt, regAttempt, uContent, lockNow, regName, regResult, uAfterRelease>>

\* acquireLock lines 84-98: read the lock back after the delay
AcquireVerify(p) ==
    /\ uPc[p] = "lock_verify"
    /\ IF lockFile.exists /\ lockFile.holder = LocalId[p]
       THEN /\ uPc' = [uPc EXCEPT ![p] = "load"]
            /\ uCont' = [uCont EXCEPT ![p] = "reg_check"]
            /\ UNCHANGED <<regAttempt, regResult>>
       ELSE /\ AcquireFailed(p)
            /\ UNCHANGED uCont
    /\ UNCHANGED <<usersFile, lockFile, usersConfig, currentUser, recentlyDeletedUsers,
                   sCont, uAttempt, uContent, lockNow, regName, uAfterRelease>>

\* ---- releaseLock ----------------------------------------------------------
\* releaseLock lines 109-114: read the holder
ReleaseRead(p) ==
    /\ uPc[p] = "rel_read"
    /\ uPc' = [uPc EXCEPT ![p] =
           IF lockFile.exists /\ lockFile.holder = LocalId[p]
           THEN "rel_remove" ELSE uAfterRelease[p]]
    /\ UNCHANGED <<usersFile, lockFile, usersConfig, currentUser, recentlyDeletedUsers,
                   uCont, sCont, uAttempt, regAttempt, uContent, lockNow, regName, regResult,
                   uAfterRelease>>

NoLock == [exists |-> FALSE, holder |-> "", timestamp |-> 0]

\* releaseLock line 115: remove the lock file
ReleaseRemove(p) ==
    /\ uPc[p] = "rel_remove"
    /\ lockFile' = NoLock
    /\ uPc' = [uPc EXCEPT ![p] = uAfterRelease[p]]
    /\ UNCHANGED <<usersFile, usersConfig, currentUser, recentlyDeletedUsers, uCont, sCont,
                   uAttempt, regAttempt, uContent, lockNow, regName, regResult, uAfterRelease>>

\* ---- loadUsers / saveUsers -------------------------------------------------
\* loadUsers (lines 446-473); ensureAdminExists saves when it changed something.
\* A read that does not parse (a file caught mid-sync) lands in the catch block.
LoadUsersStep(p) ==
    /\ uPc[p] = "load"
    /\ \E parsed \in (IF usersFile.exists /\ corruptLeft > 0 THEN {TRUE, FALSE} ELSE {TRUE}) :
        /\ corruptLeft' = IF parsed THEN corruptLeft ELSE corruptLeft - 1
        /\ IF ~parsed
           THEN \* catch (lines 469-472)
                /\ usersConfig' = [usersConfig EXCEPT ![p] = <<>>]
                /\ uPc' = [uPc EXCEPT ![p] = uCont[p]]
                /\ UNCHANGED sCont
           ELSE IF usersFile.exists
           THEN LET fixed == ensureAdminExists(usersFile.users)
                IN  /\ usersConfig' = [usersConfig EXCEPT ![p] = fixed]
                    /\ IF fixed # usersFile.users
                       THEN /\ uPc' = [uPc EXCEPT ![p] = "usave_read"]
                            /\ sCont' = [sCont EXCEPT ![p] = uCont[p]]
                       ELSE /\ uPc' = [uPc EXCEPT ![p] = uCont[p]]
                            /\ UNCHANGED sCont
           ELSE /\ usersConfig' = [usersConfig EXCEPT ![p] = <<>>]
                /\ uPc' = [uPc EXCEPT ![p] = "usave_read"]
                /\ sCont' = [sCont EXCEPT ![p] = uCont[p]]
    \* the parsed users are new objects: this.currentUser keeps the old one
    /\ currentUser' = [currentUser EXCEPT ![p].live = FALSE]
    /\ UNCHANGED <<usersFile, lockFile, recentlyDeletedUsers, uCont, uAttempt, regAttempt,
                   uContent, lockNow, regName, regResult, uAfterRelease>>

\* the file watcher's reload (main.ts checkForUsersFileChanges)
loadUsers(p) ==
    /\ uPc[p] = "idle"
    /\ uPc' = [uPc EXCEPT ![p] = "load"]
    /\ uCont' = [uCont EXCEPT ![p] = "idle"]
    /\ UNCHANGED <<usersFile, lockFile, usersConfig, currentUser, recentlyDeletedUsers,
                   sCont, uAttempt, regAttempt, uContent, lockNow, regName, regResult,
                   uAfterRelease>>

\* saveUsers up to its first write (lines 555-612)
USaveRead(p) ==
    /\ uPc[p] = "usave_read"
    /\ LET merged == IF usersFile.exists
                     THEN SaveUsersMerge(usersConfig[p], usersFile.users,
                                         recentlyDeletedUsers[p], now)
                     ELSE usersConfig[p]
       IN  /\ usersConfig' = [usersConfig EXCEPT ![p] = merged]
           /\ uContent' = [uContent EXCEPT ![p] = merged]
           /\ currentUser' = [currentUser EXCEPT ![p] = SyncCur(@, merged, LocalId[p])]
           /\ recentlyDeletedUsers' = [recentlyDeletedUsers EXCEPT ![p] =
                  IF usersFile.exists
                  THEN DeletedUsersAfter(usersConfig[p], usersFile.users, @, now)
                  ELSE @]
    /\ uAttempt' = [uAttempt EXCEPT ![p] = 1]
    /\ uPc' = [uPc EXCEPT ![p] = "usave_write"]
    /\ UNCHANGED <<usersFile, lockFile, uCont, sCont, regAttempt, lockNow, regName,
                   regResult, uAfterRelease>>

\* "await this.app.vault.adapter.write(USERS_FILE, content)"
USaveWrite(p) ==
    /\ uPc[p] = "usave_write"
    /\ usersFile' = [exists |-> TRUE, users |-> uContent[p]]
    /\ uPc' = [uPc EXCEPT ![p] = "usave_verify"]
    /\ UNCHANGED <<lockFile, usersConfig, currentUser, recentlyDeletedUsers, uCont, sCont,
                   uAttempt, regAttempt, uContent, lockNow, regName, regResult, uAfterRelease>>

\* the read-back of saveUsers (lines 615-639)
USaveVerify(p) ==
    /\ uPc[p] = "usave_verify"
    /\ IF SaveLoopExits(SameHash(StringifyUsers(uContent[p]), StringifyUsers(usersFile.users)),
                        uAttempt[p])
       THEN /\ uPc' = [uPc EXCEPT ![p] = sCont[p]]
            /\ uAttempt' = [uAttempt EXCEPT ![p] = 0]
            /\ uContent' = [uContent EXCEPT ![p] = <<>>]
       ELSE /\ uPc' = [uPc EXCEPT ![p] = "usave_write"]
            /\ uAttempt' = [uAttempt EXCEPT ![p] = @ + 1]
            /\ UNCHANGED uContent
    /\ UNCHANGED <<usersFile, lockFile, usersConfig, currentUser, recentlyDeletedUsers,
                   uCont, sCont, regAttempt, lockNow, regName, regResult, uAfterRelease>>

\* ---- registerUser, after the lock ------------------------------------------
NoCurrentUser == [def |-> FALSE, live |-> FALSE, rec |-> NoUser]

MaxRegNum(us) ==
    IF us = <<>> THEN 0
    ELSE CHOOSE n \in {us[i].registrationNumber : i \in DOMAIN us} :
             \A i \in DOMAIN us : us[i].registrationNumber <= n

NewUser(us, name, id, t) ==
    [vaultName |-> name, localIdentifier |-> id, registered |-> t,
     registrationNumber |-> MaxRegNum(us) + 1,
     isAdmin |-> (MaxRegNum(us) + 1 = 1),
     adminLevel |-> IF MaxRegNum(us) + 1 = 1 THEN "primary" ELSE Undef]

\* "existingByName": the name is taken, whatever its case
NameTaken(us, name) ==
    \E i \in DOMAIN us : toLowerCase(us[i].vaultName) = toLowerCase(name)

\* registerUser lines 693-737, after its first loadUsers, up to saveUsers
RegCheck(p) ==
    /\ uPc[p] = "reg_check"
    /\ IF \/ LocalId[p] \in LocalIdsOf(usersConfig[p])
          \/ NameTaken(usersConfig[p], regName[p])
       THEN /\ regResult' = [regResult EXCEPT ![p] = "false"]
            /\ uPc' = [uPc EXCEPT ![p] = "rel_read"]
            /\ uAfterRelease' = [uAfterRelease EXCEPT ![p] = "idle"]
            /\ UNCHANGED <<usersConfig, uCont, sCont>>
       ELSE /\ usersConfig' = [usersConfig EXCEPT ![p] =
                   Append(@, NewUser(@, regName[p], LocalId[p], now))]
            /\ uPc' = [uPc EXCEPT ![p] = "usave_read"]
            /\ sCont' = [sCont EXCEPT ![p] = "load"]
            /\ uCont' = [uCont EXCEPT ![p] = "reg_verify"]
            /\ UNCHANGED <<regResult, uAfterRelease>>
    /\ UNCHANGED <<usersFile, lockFile, currentUser, recentlyDeletedUsers, uAttempt,
                   regAttempt, uContent, lockNow, regName>>

\* registerUser lines 739-757: look for the registration in what was reloaded
RegVerify(p) ==
    /\ uPc[p] = "reg_verify"
    /\ LET us == usersConfig[p]
           found == {i \in DOMAIN us : /\ us[i].localIdentifier = LocalId[p]
                                       /\ us[i].vaultName = regName[p]}
       IN  IF found # {}
           THEN /\ currentUser' = [currentUser EXCEPT ![p] =
                       [def |-> TRUE, live |-> TRUE,
                        rec |-> us[CHOOSE i \in found : \A j \in found : i <= j]]]
                /\ regResult' = [regResult EXCEPT ![p] = "true"]
                /\ uAfterRelease' = [uAfterRelease EXCEPT ![p] = "idle"]
                /\ UNCHANGED regAttempt
           ELSE IF regAttempt[p] >= MAX_REGISTRATION_RETRIES
           THEN /\ regResult' = [regResult EXCEPT ![p] = "false"]
                /\ uAfterRelease' = [uAfterRelease EXCEPT ![p] = "idle"]
                /\ UNCHANGED <<currentUser, regAttempt>>
           ELSE /\ regAttempt' = [regAttempt EXCEPT ![p] = @ + 1]
                /\ uAfterRelease' = [uAfterRelease EXCEPT ![p] = "lock_check"]
                /\ UNCHANGED <<currentUser, regResult>>
    /\ uPc' = [uPc EXCEPT ![p] = "rel_read"]
    /\ UNCHANGED <<usersFile, lockFile, usersConfig, recentlyDeletedUsers, uCont, sCont,
                   uAttempt, uContent, lockNow, regName>>

\* ---- unregisterCurrentUser / removeUser ------------------------------------
RemoveAt(s, i) == SubSeq(s, 1, i - 1) \o SubSeq(s, i + 1, Len(s))

FirstIndex(s, Test(_)) ==
    IF \E i \in DOMAIN s : Test(s[i])
    THEN CHOOSE i \in DOMAIN s : Test(s[i]) /\ \A j \in 1..(i - 1) : ~Test(s[j])
    ELSE 0

\* "(a.registrationNumber || 999)"
RegNumOr999(u) == IF u.registrationNumber = 0 THEN 999 ELSE u.registrationNumber

\* lines 789-806: the remaining user with the lowest number becomes primary admin
PromoteNext(us) ==
    IF us = <<>> THEN us
    ELSE LET first == FirstIndex(us, LAMBDA u :
                          \A j \in DOMAIN us : RegNumOr999(u) <= RegNumOr999(us[j]))
             target == FirstIndex(us, LAMBDA u : u.vaultName = us[first].vaultName)
         IN  [us EXCEPT ![target].isAdmin = TRUE, ![target].adminLevel = "primary"]

\* unregisterCurrentUser up to "await this.saveUsers()"
unregisterCurrentUser(p) ==
    /\ uPc[p] = "idle"
    /\ currentUser[p].def
    /\ LET us == usersConfig[p]
           index == FirstIndex(us, LAMBDA u : u.localIdentifier = CurUser(p).localIdentifier)
           wasPrimaryAdmin == CurUser(p).adminLevel = "primary"
           rest == RemoveAt(us, index)
       IN  /\ index # 0
           /\ recentlyDeletedUsers' = [recentlyDeletedUsers EXCEPT ![p] =
                  With(@, CurUser(p).localIdentifier, now)]
           /\ usersConfig' = [usersConfig EXCEPT ![p] =
                  IF wasPrimaryAdmin THEN PromoteNext(rest) ELSE rest]
    /\ currentUser' = [currentUser EXCEPT ![p].live = FALSE]
    /\ uPc' = [uPc EXCEPT ![p] = "usave_read"]
    /\ sCont' = [sCont EXCEPT ![p] = "unreg_done"]
    /\ UNCHANGED <<usersFile, lockFile, uCont, uAttempt, regAttempt, uContent, lockNow,
                   regName, regResult, uAfterRelease>>

\* unregisterCurrentUser after saveUsers: "this.currentUser = null"
UnregisterDone(p) ==
    /\ uPc[p] = "unreg_done"
    /\ currentUser' = [currentUser EXCEPT ![p] = NoCurrentUser]
    /\ uPc' = [uPc EXCEPT ![p] = "idle"]
    /\ UNCHANGED <<usersFile, lockFile, usersConfig, recentlyDeletedUsers, uCont, sCont,
                   uAttempt, regAttempt, uContent, lockNow, regName, regResult, uAfterRelease>>

\* removeUser(vaultName) up to "await this.saveUsers()"
removeUser(p, name) ==
    /\ uPc[p] = "idle"
    /\ currentUser[p].def /\ CurUser(p).isAdmin
    /\ toLowerCase(CurUser(p).vaultName) # toLowerCase(name)
    /\ LET us == usersConfig[p]
           index == FirstIndex(us, LAMBDA u : toLowerCase(u.vaultName) = toLowerCase(name))
       IN  /\ index # 0
           /\ recentlyDeletedUsers' = [recentlyDeletedUsers EXCEPT ![p] =
                  With(@, us[index].localIdentifier, now)]
           /\ usersConfig' = [usersConfig EXCEPT ![p] = RemoveAt(us, index)]
    /\ uPc' = [uPc EXCEPT ![p] = "usave_read"]
    /\ sCont' = [sCont EXCEPT ![p] = "idle"]
    /\ UNCHANGED <<usersFile, lockFile, currentUser, uCont, uAttempt, regAttempt, uContent,
                   lockNow, regName, regResult, uAfterRelease>>

\* ========================================================================
\* Initial states and specifications
\* ========================================================================
\* a document as saveChat leaves it on disk: checksum filled in
WithChecksum(doc) == [doc EXCEPT !.checksum = computeDataChecksum(doc)]

\* the plugin before anybody registered: no users file, no lock, nothing in flight
UsersIdle ==
    /\ usersFile = [exists |-> FALSE, users |-> <<>>]
    /\ lockFile = NoLock
    /\ usersConfig = [p \in Procs |-> <<>>]
    /\ currentUser = [p \in Procs |-> NoCurrentUser]
    /\ recentlyDeletedUsers = [p \in Procs |-> EmptyMap]
    /\ uPc = [p \in Procs |-> "idle"]
    /\ uCont = [p \in Procs |-> "idle"]
    /\ sCont = [p \in Procs |-> "idle"]
    /\ uAttempt = [p \in Procs |-> 0]
    /\ regAttempt = [p \in Procs |-> 0]
    /\ uContent = [p \in Procs |-> <<>>]
    /\ lockNow = [p \in Procs |-> 0]
    /\ regName = [p \in Procs |-> ""]
    /\ regResult = [p \in Procs |-> "none"]
    /\ uAfterRelease = [p \in Procs |-> "idle"]

\* every ReminderManager has run loadReminders (onload) and found no reminders.json
RemindersIdle ==
    /\ remindersFile = [exists |-> FALSE, reminders |-> <<>>]
    /\ remindersData = [p \in Procs |-> <<>>]
    /\ remPc = [p \in Procs |-> "idle"]
    /\ remUsed = {}

NoMentions == [mentions |-> <<>>, lastCleanup |-> 0]

\* every MentionParser has loaded the mentions.json holding d
MentionsLoaded(d) ==
    /\ mentionsFile = [exists |-> TRUE, data |-> d]
    /\ mentionsData = [p \in Procs |-> d]
    /\ menPc = [p \in Procs |-> "idle"]
    /\ menOp = [p \in Procs |-> "none"]
    /\ menContent = [p \in Procs |-> NoMentions]
    /\ menAttempt = [p \in Procs |-> 0]
    /\ cleaned = [p \in Procs |-> {}]

MentionsIdle == MentionsLoaded(NoMentions)

\* every process has started (onload: loadChat) on the same chat.json, holding
\* document d, and nothing is in flight
ChatStartedAfter(d, corrupt, ids, done) ==
    /\ now = StartTime
    /\ ticks = 0
    /\ chatFile = [exists |-> TRUE, doc |-> WithChecksum(d)]
    /\ corruptLeft = corrupt
    /\ chatData = [p \in Procs |-> WithChecksum(d)]
    /\ recentlySentMessages = [p \in Procs |-> EmptyMap]
    /\ recentlyDismissedMessages = [p \in Procs |-> EmptyMap]
    /\ recentlyDeletedChannels = [p \in Procs |-> EmptyMap]
    /\ recentlyLeftChannels = [p \in Procs |-> EmptyMap]
    /\ recentlyAddedMembers = [p \in Procs |-> EmptyMap]
    /\ recentlyToggledReactions = [p \in Procs |-> EmptyMap]
    /\ pc = [p \in Procs |-> "idle"]
    /\ op = [p \in Procs |-> "none"]
    /\ attempt = [p \in Procs |-> 0]
    /\ content = [p \in Procs |-> NoContent]
    /\ loaded = [p \in Procs |-> <<>>]
    /\ usedIds = ids
    /\ calls = done

ChatStarted(d, corrupt, ids) == ChatStartedAfter(d, corrupt, ids, 0)

\* the general channel holding one old message of bob
DocGeneral ==
    [createEmptyV2Data(0) EXCEPT
        !.channelMessages[GENERAL_CHANNEL_ID] = <<NewMessage("m0", "bob", "hi", 500)>>]

\* ... and a group channel c1 of alice and bob holding it instead
DocGroup ==
    NewChannelDoc(createEmptyV2Data(0), "c1",
                  [type |-> "group", name |-> "team", members |-> {"alice", "bob"},
                   createdBy |-> "alice", createdAt |-> 100])

DocGroupMessage ==
    [DocGroup EXCEPT !.channelMessages["c1"] =
        <<[NewMessage("m0", "bob", "hi", 500) EXCEPT
              !.reactions = [def |-> TRUE, pairs |-> {<<"+1", "alice">>}]]>>]

\* ---- concurrent sends ------------------------------------------------------
SendId == [p \in Procs |-> IF p = "A" THEN "m1" ELSE "m2"]

InitSend == ChatStarted(DocGeneral, 0, {"m0"}) /\ UsersIdle /\ RemindersIdle /\ MentionsIdle

NextSend ==
    \/ \E p \in Procs : sendMessage(p, SendId[p], "hi", GENERAL_CHANNEL_ID) /\ UNCHANGED restVars
    \/ \E p \in Procs : SaveRead(p) /\ UNCHANGED restVars
    \/ \E p \in Procs : SaveWrite(p) /\ UNCHANGED restVars
    \/ \E p \in Procs : SaveVerify(p) /\ UNCHANGED restVars
    \/ \E p \in Procs : LoadStart(p) /\ UNCHANGED restVars
    \/ \E p \in Procs : LoadRead(p) /\ UNCHANGED restVars
    \/ Tick(1000) /\ UNCHANGED restVars

SpecSend == InitSend /\ [][NextSend]_vars

\* both sendMessage calls were made and the saveChat of each has returned
BothSavesDone ==
    /\ {SendId[p] : p \in Procs} \subseteq usedIds
    /\ \A p \in Procs : pc[p] \in {"idle", "load_read"}

HasBothInOrder(msgs) ==
    /\ {SendId[p] : p \in Procs} \subseteq MsgIdsOf(msgs)
    /\ IsSortedByTimestamp(msgs)

\* C1: A sends m1 and B sends m2 to general from the same snapshot, their saveChat
\* cycles interleaving in any order; once both saves have returned, a loadChat by
\* either process leaves both m1 and m2 in its general channel, in ascending
\* timestamp order.
C1_BothSendsSurvive ==
    [][\A p \in Procs :
          (BothSavesDone /\ pc[p] = "load_read" /\ pc'[p] = "idle")
          => HasBothInOrder(chatData'[p].channelMessages[GENERAL_CHANNEL_ID])]_vars

\* ---- edits, deletions and reactions on one message ------------------------
InitMsg == ChatStarted(DocGroupMessage, 0, {"m0", "c1"}) /\ UsersIdle /\ RemindersIdle /\ MentionsIdle

NextMsg ==
    \/ \E p \in Procs, text \in {"e1", "e2"} : editMessage(p, "m0", text, "c1") /\ UNCHANGED restVars
    \/ \E p \in Procs : deleteMessage(p, "m0", "c1") /\ UNCHANGED restVars
    \/ \E p \in Procs, e \in Emojis : toggleReaction(p, "m0", e, "c1") /\ UNCHANGED restVars
    \/ \E p \in Procs : deleteChannel(p, "c1") /\ UNCHANGED restVars
    \/ \E p \in Procs : SaveRead(p) /\ UNCHANGED restVars
    \/ \E p \in Procs : SaveWrite(p) /\ UNCHANGED restVars
    \/ \E p \in Procs : SaveVerify(p) /\ UNCHANGED restVars
    \/ \E p \in Procs : LoadStart(p) /\ UNCHANGED restVars
    \/ \E p \in Procs : LoadRead(p) /\ UNCHANGED restVars
    \/ \E d \in {REACTION_TOGGLE_PROTECTION_DURATION, REACTION_TOGGLE_PROTECTION_DURATION + 1} :
           Tick(d) /\ UNCHANGED restVars

SpecMsg == InitMsg /\ [][NextMsg]_vars

\* the step of process p in which saveChat or loadChat merges chat.json into memory
SaveMergeStep(p) == pc[p] = "save_read" /\ pc'[p] = "save_write"
LoadMergeStep(p) == pc[p] = "load_read" /\ pc'[p] = "idle"
MergeStep(p) == SaveMergeStep(p) \/ LoadMergeStep(p)

\* the copies of message id in a document
CopiesOf(doc, id) ==
    {m \in UNION {Range(doc.channelMessages[c]) : c \in DOMAIN doc.channelMessages} : m.id = id}

ContentCleared(m) ==
    /\ m.message = ""
    /\ m.mentions = Undef
    /\ m.fileLinks = Undef
    /\ m.channelMentions = Undef

\* one side holds m deleted, the other holds it edited and not deleted
DeleteMeetsEdit(ours, disk) ==
    \/ (ours.deleted /\ ~ours.edited /\ disk.edited /\ ~disk.deleted)
    \/ (ours.edited /\ ~ours.deleted /\ disk.deleted)

\* C2: when a merge brings together a deleted copy and an edited copy of m0, in
\* either direction, the merged message is deleted and its content is cleared:
\* message is empty and mentions, fileLinks and channelMentions are unset.
C2_DeleteWinsOverEdit ==
    [][\A p \in Procs :
          (/\ MergeStep(p)
           /\ \E o \in CopiesOf(chatData[p], "m0"), d \in CopiesOf(chatFile.doc, "m0") :
                  DeleteMeetsEdit(o, d))
          => \A m \in CopiesOf(chatData'[p], "m0") : m.deleted /\ ContentCleared(m)]_vars

\* C3: a message that is deleted in a process's memory is still deleted there after
\* every later merge of saveChat or loadChat, whatever copy of it chat.json holds.
C3_DeletedStaysDeleted ==
    [][\A p \in Procs :
          (MergeStep(p) /\ \E o \in CopiesOf(chatData[p], "m0") : o.deleted)
          => \A m \in CopiesOf(chatData'[p], "m0") : m.deleted]_vars

HasReaction(m, e, u) == m.reactions.def /\ <<e, u>> \in m.reactions.pairs

\* C4: after the current user toggled a reaction off, a merge of saveChat or loadChat
\* that runs within 60 s against a chat.json still holding that reaction leaves the
\* in-memory message without it.
C4_RemovedReactionStaysRemoved ==
    [][\A p \in Procs, e \in Emojis :
          (/\ MergeStep(p)
           /\ RecentlyRemoved(recentlyToggledReactions[p], <<"m0", e, Me(p)>>, now)
           /\ \E d \in CopiesOf(chatFile.doc, "m0") : HasReaction(d, e, Me(p)))
          => \A m \in CopiesOf(chatData'[p], "m0") : ~HasReaction(m, e, Me(p))]_vars

\* ---- leaving and joining a group channel ----------------------------------
InitMember == ChatStarted(DocGroup, 0, {"c1"}) /\ UsersIdle /\ RemindersIdle /\ MentionsIdle

NextMember ==
    \/ \E p \in Procs, id \in {"s1", "s2"} : leaveChannel(p, "c1", Me(p), id) /\ UNCHANGED restVars
    \/ \E p \in Procs, u \in Users, id \in {"s1", "s2"} :
           addMemberToChannel(p, "c1", u, id) /\ UNCHANGED restVars
    \/ \E p \in Procs : deleteChannel(p, "c1") /\ UNCHANGED restVars
    \/ \E p \in Procs : SaveRead(p) /\ UNCHANGED restVars
    \/ \E p \in Procs : SaveWrite(p) /\ UNCHANGED restVars
    \/ \E p \in Procs : SaveVerify(p) /\ UNCHANGED restVars
    \/ \E p \in Procs : LoadStart(p) /\ UNCHANGED restVars
    \/ \E p \in Procs : LoadRead(p) /\ UNCHANGED restVars
    \/ \E d \in {LEAVE_PROTECTION_DURATION, LEAVE_PROTECTION_DURATION + 1} :
           Tick(d) /\ UNCHANGED restVars

SpecMember == InitMember /\ [][NextMember]_vars

IsMember(doc, c, u) == c \in DOMAIN doc.channels /\ u \in doc.channels[c].members

\* process p left channel c at most LEAVE_PROTECTION_DURATION ago and has not
\* rejoined since
LeftRecently(p, c) == hasRecentlyLeftChannel(recentlyLeftChannels[p], c, now)

InitLoad == ChatStarted(DocGeneral, MaxCorruptReads, {"m0"}) /\ UsersIdle /\ RemindersIdle /\ MentionsIdle

NextLoad ==
    \/ \E p \in Procs : sendMessage(p, SendId[p], "hi", GENERAL_CHANNEL_ID) /\ UNCHANGED restVars
    \/ \E p \in Procs : SaveRead(p) /\ UNCHANGED restVars
    \/ \E p \in Procs : SaveWrite(p) /\ UNCHANGED restVars
    \/ \E p \in Procs : SaveVerify(p) /\ UNCHANGED restVars
    \/ \E p \in Procs : LoadStart(p) /\ UNCHANGED restVars
    \/ \E p \in Procs : LoadRead(p) /\ UNCHANGED restVars
    \/ Tick(1000) /\ UNCHANGED restVars

SpecLoad == InitLoad /\ [][NextLoad]_vars

Last(s) == s[Len(s)]

\* what loadChat leaves in memory when it merges the document doc
MergedWith(p, doc) ==
    LoadMerge(chatData[p], doc, recentlyDeletedChannels[p], recentlyLeftChannels[p],
              recentlyAddedMembers[p], recentlyToggledReactions[p],
              recentlyDismissedMessages[p], recentlySentMessages[p], Me(p), now).doc

\* C10: a loadChat whose reads fail validation or parsing until a valid one arrives
\* (first two rejected, third valid) merges exactly the valid read: nothing of a
\* rejected read enters memory, and it reads at most MAX_LOAD_RETRIES = 3 times.
C10_LoadMergesOnlyTheValidRead ==
    [][\A p \in Procs :
          LoadMergeStep(p)
          => /\ Len(loaded'[p]) <= MAX_LOAD_RETRIES
             /\ CopiesOf(chatData'[p], GarbageMsg.id) = {}
             /\ \A i \in 1..(Len(loaded'[p]) - 1) : ~Accepted(loaded'[p][i])
             /\ IF Accepted(Last(loaded'[p]))
                THEN /\ ~Last(loaded'[p]).damaged
                     /\ chatData'[p] = MergedWith(p, Last(loaded'[p]).doc)
                ELSE chatData'[p] = chatData[p]]_vars

\* a loadChat has returned after three reads, the first two rejected (one of them
\* for its checksum), the third accepted, and memory holds a message that only the
\* third read can have brought
C10_Witness ==
    \E p \in Procs :
        /\ pc[p] = "idle"
        /\ Len(loaded[p]) = MAX_LOAD_RETRIES
        /\ ~Accepted(loaded[p][1]) /\ ~Accepted(loaded[p][2])
        /\ loaded[p][1].parsed \/ loaded[p][2].parsed
        /\ Accepted(loaded[p][3])
        /\ \E q \in Procs \ {p} :
              /\ SendId[q] \in MsgIdsOf(loaded[p][3].doc.channelMessages[GENERAL_CHANNEL_ID])
              /\ SendId[q] \in MsgIdsOf(chatData[p].channelMessages[GENERAL_CHANNEL_ID])
        /\ CopiesOf(chatData[p], GarbageMsg.id) = {}

\* the loadChat of p that just returned made MAX_LOAD_RETRIES reads, all rejected
AllReadsFailed(ld) ==
    /\ Len(ld) = MAX_LOAD_RETRIES
    /\ \A i \in DOMAIN ld : ~Accepted(ld[i])

\* C11: when all three read attempts of loadChat fail (parse error or checksum
\* mismatch), loadChat returns and the in-memory document is what it was before
\* the call if it held a channel; only a document without channels is replaced by
\* the empty default.
C11_FailedLoadKeepsMemory ==
    [][\A p \in Procs :
          (pc[p] = "load_read" /\ AllReadsFailed(loaded'[p]))
          => /\ pc'[p] = "idle"
             /\ IF DOMAIN chatData[p].channels # {}
                THEN chatData'[p] = chatData[p]
                ELSE chatData'[p] = createEmptyV2Data(now)]_vars

\* a loadChat has returned after three rejected reads, one of them unparsable and
\* one with a bad checksum, and memory still holds the old message
C11_Witness ==
    \E p \in Procs :
        /\ pc[p] = "idle"
        /\ AllReadsFailed(loaded[p])
        /\ \E i, j \in DOMAIN loaded[p] : loaded[p][i].parsed /\ ~loaded[p][j].parsed
        /\ "m0" \in MsgIdsOf(chatData[p].channelMessages[GENERAL_CHANNEL_ID])

\* ---- registration -----------------------------------------------------------
chatQuiet == <<chatFile, corruptLeft, chatData, ledgerVars, pc, op, attempt, content, loaded,
               usedIds>>

\* a step inside an operation of the UserManager
UserStep == UNCHANGED <<now, ticks, chatQuiet, calls, reminderVars, mentionVars>>

\* a step of the UserManager that reads a file through the storage layer
UserReadStep ==
    UNCHANGED <<now, ticks, chatFile, chatData, ledgerVars, pc, op, attempt, content, loaded,
                usedIds, calls, reminderVars, mentionVars>>

\* the first step of an operation of the UserManager
UserCall ==
    /\ calls < MaxCalls
    /\ calls' = calls + 1
    /\ UNCHANGED <<now, ticks, chatQuiet, reminderVars, mentionVars>>

InitRegister == ChatStarted(DocGeneral, 0, {"m0"}) /\ UsersIdle /\ RemindersIdle /\ MentionsIdle

\* the steps every operation of the UserManager is made of
UserSteps ==
    \/ \E p \in Procs : LoadUsersStep(p) /\ UserReadStep
    \/ \E p \in Procs : USaveRead(p) /\ UserStep
    \/ \E p \in Procs : USaveWrite(p) /\ UserStep
    \/ \E p \in Procs : USaveVerify(p) /\ UserStep

\* ... and those of registerUser
RegisterSteps ==
    \/ \E p \in Procs : AcquireCheck(p) /\ UserStep
    \/ \E p \in Procs : AcquireWrite(p) /\ UserStep
    \/ \E p \in Procs : AcquireVerify(p) /\ UserStep
    \/ \E p \in Procs : RegCheck(p) /\ UserStep
    \/ \E p \in Procs : RegVerify(p) /\ UserStep
    \/ \E p \in Procs : ReleaseRead(p) /\ UserStep
    \/ \E p \in Procs : ReleaseRemove(p) /\ UserStep

\* each machine registers once, both under the same display name
NextRegister ==
    \/ \E p \in Procs : regResult[p] = "none" /\ registerUser(p, "Sam") /\ UserCall
    \/ UserSteps
    \/ RegisterSteps
    \/ \E d \in {LOCK_TIMEOUT, LOCK_TIMEOUT + 1} : Tick(d) /\ UNCHANGED restVars

SpecRegister == InitRegister /\ [][NextRegister]_vars

\* registerUser of p has returned
Returned(p) == uPc[p] = "idle" /\ regResult[p] \in {"true", "false"}

\* C7: two machines call registerUser with the same display name at the same time;
\* under every interleaving exactly one call returns true and the other false.
C7_OneRegistrationWins ==
    (/\ \A p \in Procs : Returned(p)
     /\ \A p, q \in Procs : regName[p] = regName[q])
    => Cardinality({p \in Procs : regResult[p] = "true"}) = 1

\* p is between acquireLock returning true and the start of its releaseLock
InCriticalSection(p) ==
    /\ regResult[p] = "pending"
    /\ uPc[p] \in {"load", "reg_check", "usave_read", "usave_write", "usave_verify", "reg_verify"}

\* C8: the lock gives mutual exclusion: two processes are never both between
\* acquireLock returning true and releaseLock, unless the lock of one was older
\* than LOCK_TIMEOUT when the other took it.
C8_LockIsExclusive ==
    \A p, q \in Procs :
        (p # q /\ InCriticalSection(p) /\ InCriticalSection(q))
        => (lockNow[p] - lockNow[q] > LOCK_TIMEOUT \/ lockNow[q] - lockNow[p] > LOCK_TIMEOUT)

\* ---- the users document under every operation -------------------------------
\* display names a machine's user may ask for
RegNames == [p \in Procs |-> IF p = "A" THEN {"Sam"} ELSE {"sam", "Kim"}]

InitUsers == ChatStarted(DocGeneral, 0, {"m0"}) /\ UsersIdle /\ RemindersIdle /\ MentionsIdle

NextUsers ==
    \/ \E p \in Procs : \E name \in RegNames[p] : registerUser(p, name) /\ UserCall
    \/ \E p \in Procs : unregisterCurrentUser(p) /\ UserCall
    \/ \E p \in Procs : UnregisterDone(p) /\ UserStep
    \/ \E p \in Procs, name \in Names : removeUser(p, name) /\ UserCall
    \/ \E p \in Procs : loadUsers(p) /\ UserCall
    \/ UserSteps
    \/ RegisterSteps
    \/ Tick(USER_DELETE_PROTECTION + 1) /\ UNCHANGED restVars

SpecUsers == InitUsers /\ [][NextUsers]_vars

\* the users documents that are at rest: users.json, and the memory of every
\* process that has no operation in flight
DocsAtRest == {usersFile.users} \cup {usersConfig[q] : q \in {r \in Procs : uPc[r] = "idle"}}

OnePrimaryLowestNumber(us) ==
    /\ Cardinality(Primaries(us)) = 1
    /\ \A i \in Primaries(us), j \in DOMAIN us :
           us[i].registrationNumber <= us[j].registrationNumber

NoDuplicateUsers(us) ==
    \A i, j \in DOMAIN us :
        i # j => /\ toLowerCase(us[i].vaultName) # toLowerCase(us[j].vaultName)
                 /\ us[i].localIdentifier # us[j].localIdentifier

\* C9: in users.json and in every process's memory no two users share a vaultName
\* (compared case-insensitively) and no two share a localIdentifier.
C9_UniqueUsers ==
    /\ NoDuplicateUsers(usersFile.users)
    /\ \A p \in Procs : NoDuplicateUsers(usersConfig[p])

\* ---- loading a users file that does not parse --------------------------------
\* the storage layer hands back one unparsable read
InitUsersLoad == ChatStarted(DocGeneral, 1, {"m0"}) /\ UsersIdle /\ RemindersIdle /\ MentionsIdle

\* each machine registers once, under its own name, and the file watcher reloads
NextUsersLoad ==
    \/ \E p \in Procs : regResult[p] = "none"
                          /\ registerUser(p, IF p = "A" THEN "Sam" ELSE "Kim") /\ UserCall
    \/ \E p \in Procs : loadUsers(p) /\ UserCall
    \/ UserSteps
    \/ RegisterSteps
    \/ Tick(LOCK_TIMEOUT + 1) /\ UNCHANGED restVars

SpecUsersLoad == InitUsersLoad /\ [][NextUsersLoad]_vars

\* the loadUsers step of p whose read did not parse
FailedUsersRead(p) == uPc[p] = "load" /\ uPc'[p] # "load" /\ corruptLeft' = corruptLeft - 1

\* C12: when loadUsers reads a users.json that is truncated or otherwise fails to
\* parse, the users known in memory are kept: a non-empty in-memory users document
\* is not emptied by the failed load.
C12_FailedLoadKeepsUsers ==
    [][\A p \in Procs :
          (FailedUsersRead(p) /\ usersConfig[p] # <<>>) => usersConfig'[p] # <<>>]_vars

\* ---- saves that race each other ----------------------------------------------
InitSave == ChatStarted(DocGeneral, 0, {"m0"}) /\ UsersIdle /\ RemindersIdle /\ MentionsIdle

\* the steps of saveChat and of saveUsers of process p
ChatSaveSteps(p) == (SaveRead(p) \/ SaveWrite(p) \/ SaveVerify(p)) /\ UNCHANGED restVars
UsersSaveSteps(p) == (USaveRead(p) \/ USaveWrite(p) \/ USaveVerify(p)) /\ UserStep

\* both machines send a message and register, in any order and interleaving
NextSave ==
    \/ \E p \in Procs : sendMessage(p, SendId[p], "hi", GENERAL_CHANNEL_ID) /\ UNCHANGED restVars
    \/ \E p \in Procs : ChatSaveSteps(p)
    \/ \E p \in Procs : regResult[p] = "none"
                          /\ registerUser(p, IF p = "A" THEN "Sam" ELSE "Kim") /\ UserCall
    \/ \E p \in Procs : UsersSaveSteps(p)
    \/ \E p \in Procs : LoadUsersStep(p) /\ UserReadStep
    \/ RegisterSteps

SpecSave == InitSave /\ [][NextSave]_vars

InSaveChat(p) == pc[p] \in {"save_read", "save_write", "save_verify"}
InSaveUsers(p) == uPc[p] \in {"usave_read", "usave_write", "usave_verify"}
ChatVerified(p) == SameHash(Stringify(content[p]), Stringify(chatFile.doc))
UsersVerified(p) == SameHash(StringifyUsers(uContent[p]), StringifyUsers(usersFile.users))

\* the steps a save at position `at' of cycle n has left at most
StepsLeft(at, n) ==
    IF at \in {"save_read", "usave_read"} THEN 2 * MAX_SAVE_RETRIES + 1
    ELSE IF at \in {"save_write", "usave_write"} THEN 2 * (MAX_SAVE_RETRIES - n) + 2
    ELSE IF at \in {"save_verify", "usave_verify"} THEN 2 * (MAX_SAVE_RETRIES - n) + 1
    ELSE 0

Recomputed(doc) == computeHash(StringifyWithoutChecksum([doc EXCEPT !.checksum = NoChecksum]))

\* the first read attempt of a loadChat of p got the file whole
FirstReadIntact(p) ==
    /\ pc[p] = "load_read" /\ loaded[p] = <<>>
    /\ Len(loaded'[p]) = 1 /\ loaded'[p][1].parsed /\ ~loaded'[p][1].damaged

C15_LoadIsIdempotent ==
    [][\A p \in Procs :
          (LoadMergeStep(p) /\ Accepted(Last(loaded'[p])))
          => (MergedWith(p, chatFile.doc))' = chatData'[p]]_vars

\* ---- two snapshots, merged in either order -----------------------------------
\* the messages a third machine (carol's) adds: a is m1, b is m2
NewIds == {"m1", "m2"}
SnapshotTimes == {400, 500, 600}
GeneralMessages(doc) == doc.channelMessages[GENERAL_CHANNEL_ID]

\* the sync service delivers carol's chat.json: the base document and one new
\* message x, which is the same message whenever it arrives
SyncArrives(x) ==
    /\ \A p \in Procs : pc[p] = "idle"
    /\ \A p \in Procs : \A i \in DOMAIN GeneralMessages(chatData[p]) :
           GeneralMessages(chatData[p])[i].id = x.id => GeneralMessages(chatData[p])[i] = x
    /\ LET base == SelectSeq(GeneralMessages(chatFile.doc), LAMBDA m : m.id \notin NewIds)
           snapshot == [chatFile.doc EXCEPT
                           !.channelMessages[GENERAL_CHANNEL_ID] = Append(base, x)]
       IN  /\ GeneralMessages(chatFile.doc) # Append(base, x)
           /\ chatFile' = [exists |-> TRUE, doc |-> WithChecksum(snapshot)]
    /\ UNCHANGED <<now, ticks, corruptLeft, chatData, ledgerVars, pc, op, attempt, content,
                   loaded, usedIds, calls>>

\* the new message of the snapshot the last loadChat of p read ("" before any)
LastLoaded(p) ==
    IF loaded[p] = <<>> THEN ""
    ELSE LET ids == MsgIdsOf(GeneralMessages(Last(loaded[p]).doc)) \cap NewIds
         IN  IF Cardinality(ids) = 1 THEN CHOOSE id \in ids : TRUE ELSE ""

\* machine A meets the snapshot with a first and the one with b second, machine B
\* the other way round
FirstSeen == [p \in Procs |-> IF p = "A" THEN "m1" ELSE "m2"]
SecondSeen == [p \in Procs |-> IF p = "A" THEN "m2" ELSE "m1"]
OnDisk == MsgIdsOf(GeneralMessages(chatFile.doc)) \cap NewIds

InitMergeOrder ==
    /\ \E d \in {DocGeneral, createEmptyV2Data(0)} :
           ChatStartedAfter(d, 0, {"m0", "m1", "m2"}, MaxCalls - 2 * Cardinality(Procs))
    /\ UsersIdle /\ RemindersIdle /\ MentionsIdle

NextMergeOrder ==
    \/ \E id \in NewIds, t \in SnapshotTimes :
           SyncArrives(NewMessage(id, "carol", "hi", t)) /\ UNCHANGED restVars
    \/ \E p \in Procs :
           /\ \/ LastLoaded(p) = "" /\ OnDisk = {FirstSeen[p]}
              \/ LastLoaded(p) = FirstSeen[p] /\ OnDisk = {SecondSeen[p]}
           /\ LoadStart(p) /\ UNCHANGED restVars
    \/ \E p \in Procs : LoadRead(p) /\ UNCHANGED restVars

SpecMergeOrder == InitMergeOrder /\ [][NextMergeOrder]_vars

BothMerged(p) == pc[p] = "idle" /\ LastLoaded(p) = SecondSeen[p]

\* C16: the message merge is commutative for additive content: each machine
\* starts from the same message list; one merges the snapshot that adds a and
\* then the one that adds b, the other merges them in the opposite order; both
\* end with the same set of messages in the channel.
C16_MergeOrderIrrelevant ==
    \A p, q \in Procs :
        (BothMerged(p) /\ BothMerged(q))
        => Range(GeneralMessages(chatData[p])) = Range(GeneralMessages(chatData[q]))

\* both machines have merged both snapshots, in opposite orders, and hold a and b
C16_Witness ==
    /\ \A p \in Procs : BothMerged(p) /\ NewIds \subseteq MsgIdsOf(GeneralMessages(chatData[p]))
    /\ \E i, j \in DOMAIN GeneralMessages(chatData["A"]) :
          /\ i < j
          /\ GeneralMessages(chatData["A"])[i].timestamp = GeneralMessages(chatData["A"])[j].timestamp
          /\ GeneralMessages(chatData["A"])[i].id \in NewIds

\* ---- a direct message that becomes a group ------------------------------------
\* alice has started a direct message with bob and both machines have loaded it
DocDm ==
    NewChannelDoc(createEmptyV2Data(0), "c1",
                  [type |-> "dm", name |-> "", members |-> {"alice", "bob"},
                   createdBy |-> "alice", createdAt |-> 100])

InitPromote == ChatStarted(DocDm, 0, {"c1"}) /\ UsersIdle /\ RemindersIdle /\ MentionsIdle

NextPromote ==
    \/ \E p \in Procs, id \in {"s1", "s2"} :
           addMemberToChannel(p, "c1", "carol", id) /\ UNCHANGED restVars
    \/ \E p \in Procs : sendMessage(p, SendId[p], "hi", "c1") /\ UNCHANGED restVars
    \/ \E p \in Procs : SaveRead(p) /\ UNCHANGED restVars
    \/ \E p \in Procs : SaveWrite(p) /\ UNCHANGED restVars
    \/ \E p \in Procs : SaveVerify(p) /\ UNCHANGED restVars
    \/ \E p \in Procs : LoadStart(p) /\ UNCHANGED restVars
    \/ \E p \in Procs : LoadRead(p) /\ UNCHANGED restVars
    \/ Tick(ADD_MEMBER_PROTECTION_DURATION + 1) /\ UNCHANGED restVars

SpecPromote == InitPromote /\ [][NextPromote]_vars

TypeIn(doc, c) == IF c \in DOMAIN doc.channels THEN doc.channels[c].type ELSE "none"

\* C17: the promotion of a direct message to a group is one-way: once a copy of
\* the channel says group, in a machine's memory or in chat.json, no step of any
\* machine (a merge or a save by one whose copy still says dm included) makes
\* that copy say dm again.
C17_PromotionIsOneWay ==
    [][/\ \A p \in Procs : TypeIn(chatData[p], "c1") = "group" => TypeIn(chatData'[p], "c1") # "dm"
       /\ TypeIn(chatFile.doc, "c1") = "group" => TypeIn(chatFile'.doc, "c1") # "dm"]_vars

\* ---- the General channel -------------------------------------------------------
\* the sync service delivers a chat.json that carries a tombstone for General,
\* with or without the General channel itself, before the machines' operations
TombstoneForGeneral ==
    /\ calls = 0
    /\ GENERAL_CHANNEL_ID \notin DOMAIN chatFile.doc.deletedChannels
    /\ \E listed \in BOOLEAN :
          LET marked == [chatFile.doc EXCEPT
                            !.deletedChannels = With(@, GENERAL_CHANNEL_ID,
                                [deletedAt |-> now, deletedBy |-> "carol"])]
              others == DOMAIN marked.channels \ {GENERAL_CHANNEL_ID}
              doc == IF listed THEN marked
                     ELSE [marked EXCEPT !.channels = Restrict(@, others),
                                         !.channelMessages = Restrict(@, others),
                                         !.readState = Restrict(@, others)]
          IN  chatFile' = [exists |-> TRUE, doc |-> WithChecksum(doc)]
    /\ UNCHANGED <<now, ticks, corruptLeft, chatData, ledgerVars, pc, op, attempt, content,
                   loaded, usedIds, calls>>

\* the id generateId gives the system message of a leave on each machine
LeaveId == [p \in Procs |-> IF p = "A" THEN "s1" ELSE "s2"]

InitGeneral == ChatStarted(DocDm, 0, {"c1"}) /\ UsersIdle /\ RemindersIdle /\ MentionsIdle

NextGeneral ==
    \/ \E p \in Procs, c \in {GENERAL_CHANNEL_ID, "c1"} : deleteChannel(p, c) /\ UNCHANGED restVars
    \/ \E p \in Procs, c \in {GENERAL_CHANNEL_ID, "c1"} :
           leaveChannel(p, c, Me(p), LeaveId[p]) /\ UNCHANGED restVars
    \/ \E p \in Procs : cleanupStaleChannels(p) /\ UNCHANGED restVars
    \/ TombstoneForGeneral /\ UNCHANGED restVars
    \/ \E p \in Procs : SaveRead(p) /\ UNCHANGED restVars
    \/ \E p \in Procs : SaveWrite(p) /\ UNCHANGED restVars
    \/ \E p \in Procs : SaveVerify(p) /\ UNCHANGED restVars
    \/ \E p \in Procs : LoadStart(p) /\ UNCHANGED restVars
    \/ \E p \in Procs : LoadRead(p) /\ UNCHANGED restVars
    \/ Tick(SEVEN_DAYS_MS + 1) /\ UNCHANGED restVars

SpecGeneral == InitGeneral /\ [][NextGeneral]_vars

GeneralChannels(doc) == {c \in DOMAIN doc.channels : doc.channels[c].type = "general"}

\* C18: every in-memory chat document has exactly one channel of type general,
\* under the id GENERAL_CHANNEL_ID; no operation removes it: not deleteChannel,
\* leaveChannel, cleanupStaleChannels or saveChat, and not a loadChat of a file
\* that carries a tombstone for it.
C18_OneGeneralChannel ==
    \A p \in Procs : GeneralChannels(chatData[p]) = {GENERAL_CHANNEL_ID}

\* a machine has loaded a file that has a tombstone for General and no General
\* channel, and has taken the tombstone over
C18_Witness ==
    \E p \in Procs :
        /\ pc[p] = "idle" /\ loaded[p] # <<>>
        /\ GENERAL_CHANNEL_ID \in DOMAIN Last(loaded[p]).doc.deletedChannels
        /\ GENERAL_CHANNEL_ID \notin DOMAIN Last(loaded[p]).doc.channels
        /\ GENERAL_CHANNEL_ID \in DOMAIN chatData[p].deletedChannels
        /\ GENERAL_CHANNEL_ID \in DOMAIN recentlyDeletedChannels[p]

\* ---- a deletion racing with an added member ------------------------------------
\* machine A deletes the group c1 while machine B, which still holds c1, adds
\* carol to it; each machine runs loadChat once both saves have returned
Deleter == "A"
Adder == "B"

BothSaved ==
    /\ \A p \in Procs : pc[p] = "idle"
    /\ "c1" \in DOMAIN recentlyDeletedChannels[Deleter]
    /\ "s1" \in usedIds

InitTombstone ==
    ChatStartedAfter(DocGroup, 0, {"c1"}, MaxCalls - 2 * Cardinality(Procs)) /\ UsersIdle /\ RemindersIdle /\ MentionsIdle

NextTombstone ==
    \/ deleteChannel(Deleter, "c1") /\ UNCHANGED restVars
    \/ addMemberToChannel(Adder, "c1", "carol", "s1") /\ UNCHANGED restVars
    \/ \E p \in Procs : SaveRead(p) /\ UNCHANGED restVars
    \/ \E p \in Procs : SaveWrite(p) /\ UNCHANGED restVars
    \/ \E p \in Procs : SaveVerify(p) /\ UNCHANGED restVars
    \/ \E p \in Procs : BothSaved /\ LoadStart(p) /\ UNCHANGED restVars
    \/ \E p \in Procs : LoadRead(p) /\ UNCHANGED restVars
    \/ \E d \in {1, CHANNEL_DELETE_PROTECTION + 1} : Tick(d) /\ UNCHANGED restVars

SpecTombstone == InitTombstone /\ [][NextTombstone]_vars

\* both saves have returned and both machines have run loadChat since
BothLoaded == BothSaved /\ \A p \in Procs : loaded[p] # <<>> /\ Accepted(Last(loaded[p]))

\* the tombstone of c in document doc is within its retention at time t
TombstoneFresh(doc, c, t) ==
    c \in DOMAIN doc.deletedChannels
    /\ t - doc.deletedChannels[c].deletedAt < DELETED_CHANNEL_RETENTION_MS

\* C19: tombstone wins: machine A deleted c1 while machine B, still holding c1,
\* added a member to it; once both saves have returned and both machines have
\* run loadChat, c1 is in the channel list of neither machine nor of chat.json
\* while the tombstone is within its 24 h retention.
C19_TombstoneWins ==
    (BothLoaded /\ TombstoneFresh(chatFile.doc, "c1", now))
        => /\ \A p \in Procs : "c1" \notin DOMAIN chatData[p].channels
           /\ "c1" \notin DOMAIN chatFile.doc.channels

\* ---- a deleted channel that chat.json still lists ------------------------------
InitDeleted == ChatStarted(DocGroup, 0, {"c1"}) /\ UsersIdle /\ RemindersIdle /\ MentionsIdle

NextDeleted ==
    \/ \E p \in Procs : deleteChannel(p, "c1") /\ UNCHANGED restVars
    \/ \E p \in Procs : addMemberToChannel(p, "c1", "carol", SendId[p]) /\ UNCHANGED restVars
    \/ \E p \in Procs : sendMessage(p, SendId[p], "hi", GENERAL_CHANNEL_ID) /\ UNCHANGED restVars
    \/ \E p \in Procs : SaveRead(p) /\ UNCHANGED restVars
    \/ \E p \in Procs : SaveWrite(p) /\ UNCHANGED restVars
    \/ \E p \in Procs : SaveVerify(p) /\ UNCHANGED restVars
    \/ \E p \in Procs : LoadStart(p) /\ UNCHANGED restVars
    \/ \E p \in Procs : LoadRead(p) /\ UNCHANGED restVars
    \/ \E d \in {CHANNEL_DELETE_PROTECTION + 1, DELETED_CHANNEL_RETENTION_MS,
                  DELETED_CHANNEL_RETENTION_MS + 1} :
           Tick(d) /\ UNCHANGED restVars

SpecDeleted == InitDeleted /\ [][NextDeleted]_vars

\* machine p deleted channel c and the deletion is protected: isRecentlyDeletedChannel
\* as machine p would answer it now
DeletionProtected(p, c) ==
    /\ c \notin DOMAIN chatData[p].channels
    /\ isRecentlyDeletedChannel(recentlyDeletedChannels[p], chatData[p].deletedChannels, c, now)

\* C20: a channel a machine deleted does not come back into that machine's
\* channel list through a loadChat or a saveChat whose disk snapshot still lists
\* it, while the deletion is protected (300 s memory entry or unexpired 24 h
\* tombstone); and saveChat adds no channel to memory.
C20_DeletedStaysDeleted ==
    [][\A p \in Procs :
          /\ (/\ LoadMergeStep(p)
              /\ Accepted(Last(loaded'[p]))
              /\ "c1" \in DOMAIN Last(loaded'[p]).doc.channels
              /\ DeletionProtected(p, "c1"))
             => "c1" \notin DOMAIN chatData'[p].channels
          /\ SaveMergeStep(p)
             => DOMAIN chatData'[p].channels \subseteq DOMAIN chatData[p].channels]_vars

\* ---- a channel filled up to the cap --------------------------------------------
\* General holds MAX_MESSAGES_PER_CHANNEL old messages of bob, one per millisecond
DocFull ==
    [createEmptyV2Data(0) EXCEPT
        !.channelMessages[GENERAL_CHANNEL_ID] =
            [i \in 1..MAX_MESSAGES_PER_CHANNEL |-> NewMessage(HistoryIds[i], "bob", "hi", i)]]

\* every step handles lists of 200 messages: one operation per machine is looked at
InitCap ==
    ChatStartedAfter(DocFull, 0, Range(HistoryIds), MaxCalls - Cardinality(Procs)) /\ UsersIdle /\ RemindersIdle /\ MentionsIdle

NextCap ==
    \/ \E p \in Procs : sendMessage(p, SendId[p], "hi", GENERAL_CHANNEL_ID) /\ UNCHANGED restVars
    \/ \E p \in Procs : SaveRead(p) /\ UNCHANGED restVars
    \/ \E p \in Procs : SaveWrite(p) /\ UNCHANGED restVars
    \/ \E p \in Procs : SaveVerify(p) /\ UNCHANGED restVars
    \/ \E p \in Procs : LoadStart(p) /\ UNCHANGED restVars
    \/ \E p \in Procs : LoadRead(p) /\ UNCHANGED restVars
    \/ Tick(MESSAGE_PROTECTION_DURATION + 1) /\ UNCHANGED restVars

SpecCap == InitCap /\ [][NextCap]_vars

WithinCap(doc) ==
    \A c \in DOMAIN doc.channelMessages : Len(doc.channelMessages[c]) <= MAX_MESSAGES_PER_CHANNEL

\* C21: every channel's message list holds at most MAX_MESSAGES_PER_CHANNEL (200)
\* messages, in each machine's memory and in chat.json, in every reachable
\* state: after sendMessage and its saveChat, after the merges of loadChat and
\* saveChat, and after the resurrect pass.
C21_MessageCap ==
    /\ \A p \in Procs : WithinCap(chatData[p])
    /\ WithinCap(chatFile.doc)

\* ---- a lock holder that crashes -------------------------------------------------
\* machine A takes the registration lock and stops there: it takes no step after
\* its acquireLock returned true.  Machine B calls registerUser again and again.
Crasher == "A"
Caller == "B"

InitCrash == ChatStarted(DocGeneral, 0, {"m0"}) /\ UsersIdle /\ RemindersIdle /\ MentionsIdle

NextCrash ==
    \/ regResult[Crasher] = "none" /\ registerUser(Crasher, "Sam") /\ UserCall
    \/ AcquireCheck(Crasher) /\ UserStep
    \/ AcquireWrite(Crasher) /\ UserStep
    \/ AcquireVerify(Crasher) /\ UserStep
    \/ registerUser(Caller, "Kim") /\ UserCall
    \/ AcquireCheck(Caller) /\ UserStep
    \/ AcquireWrite(Caller) /\ UserStep
    \/ AcquireVerify(Caller) /\ UserStep
    \/ LoadUsersStep(Caller) /\ UserReadStep
    \/ RegCheck(Caller) /\ UserStep
    \/ USaveRead(Caller) /\ UserStep
    \/ USaveWrite(Caller) /\ UserStep
    \/ USaveVerify(Caller) /\ UserStep
    \/ RegVerify(Caller) /\ UserStep
    \/ ReleaseRead(Caller) /\ UserStep
    \/ ReleaseRemove(Caller) /\ UserStep
    \/ \E d \in {LOCK_TIMEOUT, LOCK_TIMEOUT + 1} : Tick(d) /\ UNCHANGED restVars

\* a call of acquireLock that has started runs to its return
FairCrash ==
    /\ WF_vars(AcquireCheck(Caller) /\ UserStep)
    /\ WF_vars(AcquireWrite(Caller) /\ UserStep)
    /\ WF_vars(AcquireVerify(Caller) /\ UserStep)

SpecCrash == InitCrash /\ [][NextCrash]_vars /\ FairCrash

\* the crashed machine holds the lock: its acquireLock returned true and the lock
\* file names it
CrashedHolding ==
    /\ uPc[Crasher] = "load"
    /\ lockFile.exists /\ lockFile.holder = LocalId[Crasher]

\* acquireLock of the caller has returned true
CallerAcquired == uPc[Caller] = "load" /\ uCont[Caller] = "reg_check"

\* C22: a crashed lock holder does not block registration for ever: when the
\* lock of the crashed machine is older than LOCK_TIMEOUT (10 s), a call of
\* acquireLock by the other machine returns true.
C22_StaleLockIsTaken ==
    (/\ CrashedHolding
     /\ now - lockFile.timestamp > LOCK_TIMEOUT
     /\ uPc[Caller] = "lock_check")
        ~> CallerAcquired

C22_Witness ==
    /\ uPc[Crasher] = "load"
    /\ CallerAcquired
    /\ lockFile.holder = LocalId[Caller]
    /\ lockNow[Caller] - lockNow[Crasher] > LOCK_TIMEOUT

\* C23: releaseLock never removes a lock file whose recorded holder is another
\* machine, under any interleaving: a lock another machine wrote between
\* releaseLock's read of the holder and its remove call included.
C23_ReleaseOnlyOwnLock ==
    [][\A p \in Procs :
          (uPc[p] = "rel_remove" /\ uPc'[p] # "rel_remove" /\ lockFile.exists /\ ~lockFile'.exists)
          => lockFile.holder = LocalId[p]]_vars

\* ---- purging tombstones ---------------------------------------------------------
\* the tombstones of doc that are older than the retention at time t
ExpiredTombstones(doc, t) ==
    {c \in DOMAIN doc.deletedChannels :
        t - doc.deletedChannels[c].deletedAt > DELETED_CHANNEL_RETENTION_MS}

\* machine p knew of the deletion of c and holds no tombstone for it any more:
\* a loadChat of p purged it
PurgedBy(p, c) ==
    /\ c \in DOMAIN recentlyDeletedChannels[p]
    /\ c \notin DOMAIN chatData[p].deletedChannels

\* C24: a tombstone older than 24 h is purged: loadChat (merge path) leaves no
\* such tombstone in memory, and the saveChat that follows brings none back:
\* it is absent from memory and from the chat.json that saveChat writes.
C24_ExpiredTombstonePurged ==
    [][\A p \in Procs :
          /\ (LoadMergeStep(p) /\ Accepted(Last(loaded'[p])))
             => ExpiredTombstones(chatData'[p], now) = {}
          /\ (SaveMergeStep(p) /\ PurgedBy(p, "c1")
                /\ "c1" \in ExpiredTombstones(chatFile.doc, now))
             => /\ "c1" \notin DOMAIN chatData'[p].deletedChannels
                /\ "c1" \notin DOMAIN content'[p].deletedChannels]_vars

\* ---- ReminderManager (notifier.ts) ------------------------------------------------
\* a step inside an operation of the ReminderManager
ReminderStep == UNCHANGED <<now, ticks, chatQuiet, calls, userVars, mentionVars>>

\* the first step of an operation of the ReminderManager
ReminderCall ==
    /\ calls < MaxCalls
    /\ calls' = calls + 1
    /\ UNCHANGED <<now, ticks, chatQuiet, userVars, mentionVars>>

\* the Reminder createReminder builds
NewReminder(id, user, t) ==
    [id |-> id, user |-> user, createdAt |-> t, completed |-> FALSE]

ReminderIds(rs) == {rs[i].id : i \in DOMAIN rs}

\* createReminder(message, dueDate) up to the write of saveReminders: the push
\* and JSON.stringify(this.remindersData)
createReminder(p, id) ==
    /\ remPc[p] = "idle"
    /\ id \notin remUsed
    /\ remindersData' = [remindersData EXCEPT ![p] = Append(@, NewReminder(id, Me(p), now))]
    /\ remUsed' = remUsed \cup {id}
    /\ remPc' = [remPc EXCEPT ![p] = "rem_write"]
    /\ UNCHANGED remindersFile

\* saveReminders: "await this.app.vault.adapter.write(REMINDERS_FILE, content)"
SaveRemindersWrite(p) ==
    /\ remPc[p] = "rem_write"
    /\ remindersFile' = [exists |-> TRUE, reminders |-> remindersData[p]]
    /\ remPc' = [remPc EXCEPT ![p] = "idle"]
    /\ UNCHANGED <<remindersData, remUsed>>

\* loadReminders: memory is replaced by the file, or by the empty document
loadReminders(p) ==
    /\ remPc[p] = "idle"
    /\ remindersData' = [remindersData EXCEPT ![p] =
           IF remindersFile.exists THEN remindersFile.reminders ELSE <<>>]
    /\ UNCHANGED <<remindersFile, remPc, remUsed>>

\* the id generateId gives each machine's reminders
ReminderIdsOf == [p \in Procs |-> IF p = "A" THEN {"r1", "r3"} ELSE {"r2", "r4"}]

InitReminders == ChatStarted(DocGeneral, 0, {"m0"}) /\ UsersIdle /\ RemindersIdle /\ MentionsIdle

NextReminders ==
    \/ \E p \in Procs : \E id \in ReminderIdsOf[p] : createReminder(p, id) /\ ReminderCall
    \/ \E p \in Procs : SaveRemindersWrite(p) /\ ReminderStep
    \/ \E p \in Procs : loadReminders(p) /\ ReminderCall

SpecReminders == InitReminders /\ [][NextReminders]_vars

\* the reminders machine p created and whose saveReminders has returned
SavedBy(p) ==
    IF remPc[p] = "idle" THEN ReminderIds(remindersData[p]) \cap ReminderIdsOf[p] ELSE {}

\* C25: saving the reminders document does not lose another machine's addition:
\* when machine A created r1 and saved, and machine B, which loaded
\* reminders.json before A's save, created r2 and saved, reminders.json holds r1
\* and r2 after B's save.
C25_ReminderSaveKeepsOthers ==
    ("r1" \in SavedBy("A") /\ "r2" \in SavedBy("B"))
        => {"r1", "r2"} \subseteq ReminderIds(remindersFile.reminders)

\* chat.json whose group-channel message was already edited once by its author
DocEdited ==
    [DocGroup EXCEPT !.channelMessages["c1"] =
        <<[NewMessage("m0", "bob", "hi", 500) EXCEPT !.edited = TRUE, !.editedAt = 600]>>]

InitReact == ChatStarted(DocEdited, 0, {"m0", "c1"}) /\ UsersIdle /\ RemindersIdle /\ MentionsIdle

NextReact ==
    \/ \E p \in Procs, text \in {"e1", "e2"} : editMessage(p, "m0", text, "c1") /\ UNCHANGED restVars
    \/ \E p \in Procs, e \in Emojis : toggleReaction(p, "m0", e, "c1") /\ UNCHANGED restVars
    \/ \E p \in Procs : SaveRead(p) /\ UNCHANGED restVars
    \/ \E p \in Procs : SaveWrite(p) /\ UNCHANGED restVars
    \/ \E p \in Procs : SaveVerify(p) /\ UNCHANGED restVars
    \/ \E p \in Procs : LoadStart(p) /\ UNCHANGED restVars
    \/ \E p \in Procs : LoadRead(p) /\ UNCHANGED restVars
    \/ \E d \in {1, REACTION_TOGGLE_PROTECTION_DURATION, REACTION_TOGGLE_PROTECTION_DURATION + 1} :
           Tick(d) /\ UNCHANGED restVars

SpecReact == InitReact /\ [][NextReact]_vars

\* trackReactionToggle recorded an addition of the pair and it is at most 60 s old
RecentlyAdded(toggles, k, t) == ToggleActive(toggles, k, t) /\ toggles[k].added

\* C26: when the current user toggled a reaction on within the last 60 s on a
\* message that is deleted neither in memory nor on disk, every merge of that
\* message by saveChat or loadChat leaves the in-memory message with the
\* reaction, whatever the disk copy holds.
C26_AddedReactionSurvivesMerge ==
    [][\A p \in Procs, e \in Emojis :
          (/\ MergeStep(p)
           /\ RecentlyAdded(recentlyToggledReactions[p], <<"m0", e, Me(p)>>, now)
           /\ \E m \in CopiesOf(chatData[p], "m0") : ~m.deleted
           /\ \E d \in CopiesOf(chatFile.doc, "m0") : ~d.deleted)
          => \A m \in CopiesOf(chatData'[p], "m0") : HasReaction(m, e, Me(p))]_vars

\* the pair was toggled off by p and both copies of m0 that meet in
\* mergeMessageUpdates are live, the disk copy still holding the pair
RemovedMeetsDisk(p, e) ==
    /\ <<"m0", e, Me(p)>> \in DOMAIN recentlyToggledReactions[p]
    /\ ~recentlyToggledReactions[p][<<"m0", e, Me(p)>>].added
    /\ \E m \in CopiesOf(chatData[p], "m0") : ~m.deleted
    /\ \E d \in CopiesOf(chatFile.doc, "m0") : ~d.deleted /\ HasReaction(d, e, Me(p))

ToggleAge(p, e) == now - recentlyToggledReactions[p][<<"m0", e, Me(p)>>].timestamp

\* C27: the protection of a reaction toggled off ends exactly at the TTL: when
\* mergeMessageUpdates merges a disk copy that still holds the pair, a merge at
\* an age of 60 s or less leaves the pair out of the in-memory message, and a
\* merge at a greater age puts it back and removes the ledger entry.
C27_ProtectionEndsAtTTL ==
    [][\A p \in Procs, e \in Emojis :
          (MergeStep(p) /\ RemovedMeetsDisk(p, e))
          => /\ CopiesOf(chatData'[p], "m0") # {}
             /\ IF ToggleAge(p, e) <= REACTION_TOGGLE_PROTECTION_DURATION
                THEN /\ \A m \in CopiesOf(chatData'[p], "m0") : ~HasReaction(m, e, Me(p))
                     /\ <<"m0", e, Me(p)>> \in DOMAIN recentlyToggledReactions'[p]
                ELSE /\ \A m \in CopiesOf(chatData'[p], "m0") : HasReaction(m, e, Me(p))
                     /\ <<"m0", e, Me(p)>> \notin DOMAIN recentlyToggledReactions'[p]]_vars

\* the channels of the member-addition scenario: the existing group, a group
\* created by createGroupChannel and a conversation started by startDM
AddedChannels == {"c1", "c2", "c3"}

InitAdded == ChatStarted(DocGroup, 0, {"c1"}) /\ UsersIdle /\ RemindersIdle /\ MentionsIdle

NextAdded ==
    \/ \E p \in Procs, u \in Users :
           addMemberToChannel(p, "c1", u, SendId[p]) /\ UNCHANGED restVars
    \/ \E p \in Procs : createGroupChannel(p, "c2", "team", {Me(p), "carol"}) /\ UNCHANGED restVars
    \/ \E p \in Procs : startDM(p, "c3", "carol") /\ UNCHANGED restVars
    \/ \E p \in Procs : leaveChannel(p, "c1", Me(p), LeaveId[p]) /\ UNCHANGED restVars
    \/ \E p \in Procs : SaveRead(p) /\ UNCHANGED restVars
    \/ \E p \in Procs : SaveWrite(p) /\ UNCHANGED restVars
    \/ \E p \in Procs : SaveVerify(p) /\ UNCHANGED restVars
    \/ \E p \in Procs : LoadStart(p) /\ UNCHANGED restVars
    \/ \E p \in Procs : LoadRead(p) /\ UNCHANGED restVars
    \/ \E d \in {ADD_MEMBER_PROTECTION_DURATION, ADD_MEMBER_PROTECTION_DURATION + 1} :
           Tick(d) /\ UNCHANGED restVars

SpecAdded == InitAdded /\ [][NextAdded]_vars

\* p added u to c at most 300 s ago and u has not left through p since
\* (trackMemberAdded sets the entry, leaveChannel deletes it)
AddedRecently(p, c, u) ==
    /\ <<c, u>> \in DOMAIN recentlyAddedMembers[p]
    /\ now - recentlyAddedMembers[p][<<c, u>>] <= ADD_MEMBER_PROTECTION_DURATION

\* C28: when this process added member u to channel c within the last 300 s
\* and u has not left through this process since, a loadChat merge that keeps c
\* in memory leaves u in c's in-memory member list, whatever member list the
\* disk snapshot has for c.
C28_AddedMemberStaysIn ==
    [][\A p \in Procs, c \in AddedChannels, u \in Users :
          (/\ LoadMergeStep(p)
           /\ AddedRecently(p, c, u)
           /\ c \in DOMAIN chatData'[p].channels)
          => IsMember(chatData'[p], c, u)]_vars

\* a loadChat at an age of exactly 300 s merged a snapshot, written at that
\* moment, whose member list for c1 lacks the added member, and the member is
\* still in memory
C28_Witness ==
    \E p \in Procs, u \in Users :
        /\ pc[p] = "idle"
        /\ <<"c1", u>> \in DOMAIN recentlyAddedMembers[p]
        /\ now - recentlyAddedMembers[p][<<"c1", u>>] = ADD_MEMBER_PROTECTION_DURATION
        /\ loaded[p] # <<>>
        /\ "c1" \in DOMAIN loaded[p][Len(loaded[p])].doc.channels
        /\ ~IsMember(loaded[p][Len(loaded[p])].doc, "c1", u)
        /\ \E m \in Range(loaded[p][Len(loaded[p])].doc.channelMessages["c1"]) : m.timestamp = now
        /\ IsMember(chatData[p], "c1", u)

\* chat.json whose group channel holds two messages of bob: m0 never edited,
\* m1 edited once
DocEdits ==
    [DocGroup EXCEPT !.channelMessages["c1"] =
        <<NewMessage("m0", "bob", "hi", 500),
          [NewMessage("m1", "bob", "hi", 550) EXCEPT !.edited = TRUE, !.editedAt = 600]>>]

InitEdit == ChatStarted(DocEdits, 0, {"m0", "m1", "c1"}) /\ UsersIdle /\ RemindersIdle /\ MentionsIdle

NextEdit ==
    \/ \E p \in Procs, id \in {"m0", "m1"}, text \in {"e1", "e2"} :
           editMessage(p, id, text, "c1") /\ UNCHANGED restVars
    \/ \E p \in Procs : SaveRead(p) /\ UNCHANGED restVars
    \/ \E p \in Procs : SaveWrite(p) /\ UNCHANGED restVars
    \/ \E p \in Procs : SaveVerify(p) /\ UNCHANGED restVars
    \/ \E p \in Procs : LoadStart(p) /\ UNCHANGED restVars
    \/ \E p \in Procs : LoadRead(p) /\ UNCHANGED restVars
    \/ Tick(1) /\ UNCHANGED restVars

SpecEdit == InitEdit /\ [][NextEdit]_vars

\* what an edit replaces
EditContent(m) == <<m.message, m.mentions, m.fileLinks, m.channelMentions>>

\* the copy whose edit the merge is to keep: the one edited later when both
\* are edited, the edited one when one is
LaterEdit(ours, disk) ==
    IF ours.edited /\ disk.edited
    THEN IF disk.editedAt > ours.editedAt THEN disk ELSE ours
    ELSE IF disk.edited THEN disk ELSE ours

\* C29: the edit merge is last-writer-wins by editedAt in both directions: when
\* mergeMessageUpdates meets two live copies of a message that are edited at
\* different times, or of which one is edited, the merged message has the
\* text, mentions, fileLinks and channelMentions of the copy edited later (of
\* the edited copy), be that the in-memory copy or the disk copy.
C29_LaterEditWins ==
    [][\A p \in Procs, id \in {"m0", "m1"} :
          LET ours == MsgById(chatData[p].channelMessages["c1"], id)
              disk == MsgById(chatFile.doc.channelMessages["c1"], id)
          IN  (/\ MergeStep(p)
               /\ ~ours.deleted /\ ~disk.deleted
               /\ \/ ours.edited /\ disk.edited /\ ours.editedAt # disk.editedAt
                  \/ ours.edited # disk.edited)
              => EditContent(MsgById(chatData'[p].channelMessages["c1"], id))
                     = EditContent(LaterEdit(ours, disk))]_vars

\* the author's machine kept its own later edit of m1 against the older edit
\* on disk in its saveChat, and the other machine took the later edit from
\* disk in its loadChat
C29_Witness ==
    /\ pc = [p \in Procs |-> "idle"]
    /\ loaded["A"] # <<>>
    /\ \A p \in Procs :
           LET m == MsgById(chatData[p].channelMessages["c1"], "m1")
           IN  m.editedAt = StartTime /\ m.message = "e2" /\ m.fileLinks = "[[note]]"
    /\ MsgById(chatFile.doc.channelMessages["c1"], "m1").editedAt = StartTime

\* chat.json disappears from the vault (deleted by the user or by the sync
\* client): the state loadChat and saveChat test with adapter.exists
RemoveChatFile ==
    /\ chatFile.exists
    /\ chatFile' = [exists |-> FALSE, doc |-> NoContent]
    /\ UNCHANGED <<now, ticks, corruptLeft, chatData, ledgerVars, pc, op, attempt, content,
                   loaded, usedIds, calls>>

InitRecent == ChatStarted(DocGroup, 0, {"c1"}) /\ UsersIdle /\ RemindersIdle /\ MentionsIdle

NextRecent ==
    \/ \E p \in Procs : sendMessage(p, SendId[p], "hi", "c1") /\ UNCHANGED restVars
    \/ \E p \in Procs : deleteChannel(p, "c1") /\ UNCHANGED restVars
    \/ RemoveChatFile /\ UNCHANGED restVars
    \/ \E p \in Procs : SaveRead(p) /\ UNCHANGED restVars
    \/ \E p \in Procs : SaveWrite(p) /\ UNCHANGED restVars
    \/ \E p \in Procs : SaveVerify(p) /\ UNCHANGED restVars
    \/ \E p \in Procs : LoadStart(p) /\ UNCHANGED restVars
    \/ \E p \in Procs : LoadRead(p) /\ UNCHANGED restVars
    \/ \E d \in {MESSAGE_PROTECTION_DURATION - 1, MESSAGE_PROTECTION_DURATION + 1} :
           Tick(d) /\ UNCHANGED restVars

SpecRecent == InitRecent /\ [][NextRecent]_vars

\* p has sent its message, and less than 60 s have passed since the start, so
\* the message is less than 60 s old
SentLately(p) == SendId[p] \in usedIds /\ now - StartTime < MESSAGE_PROTECTION_DURATION

HoldsOwnMessage(p) ==
    /\ "c1" \in DOMAIN chatData[p].channelMessages
    /\ SendId[p] \in MsgIdsOf(chatData[p].channelMessages["c1"])

dismissSystemMessage(p, id, c) ==
    /\ pc[p] = "idle"
    /\ c \in DOMAIN chatData[p].channelMessages
    /\ id \in MsgIdsOf(chatData[p].channelMessages[c])
    /\ MsgById(chatData[p].channelMessages[c], id).from = System
    /\ recentlyDismissedMessages' = [recentlyDismissedMessages EXCEPT ![p] = With(@, id, now)]
    /\ chatData' = [chatData EXCEPT ![p].channelMessages[c] =
           SelectSeq(@, LAMBDA m : m.id # id)]
    /\ CallSave(p, "dismissSystemMessage")
    /\ UNCHANGED <<recentlySentMessages, recentlyDeletedChannels, recentlyLeftChannels,
                   recentlyAddedMembers, recentlyToggledReactions, usedIds>>

\* chat.json after addMemberToChannel put its system message into the group channel
DocSystemMessage ==
    [DocGroup EXCEPT !.channelMessages["c1"] = <<NewMessage("s1", System, "sys", 500)>>]

InitDismiss == ChatStarted(DocSystemMessage, 0, {"s1", "c1"}) /\ UsersIdle /\ RemindersIdle /\ MentionsIdle

NextDismiss ==
    \/ \E p \in Procs : dismissSystemMessage(p, "s1", "c1") /\ UNCHANGED restVars
    \/ \E p \in Procs : sendMessage(p, SendId[p], "hi", "c1") /\ UNCHANGED restVars
    \/ \E p \in Procs : SaveRead(p) /\ UNCHANGED restVars
    \/ \E p \in Procs : SaveWrite(p) /\ UNCHANGED restVars
    \/ \E p \in Procs : SaveVerify(p) /\ UNCHANGED restVars
    \/ \E p \in Procs : LoadStart(p) /\ UNCHANGED restVars
    \/ \E p \in Procs : LoadRead(p) /\ UNCHANGED restVars
    \/ \E d \in {DISMISS_PROTECTION_DURATION, DISMISS_PROTECTION_DURATION + 1} :
           Tick(d) /\ UNCHANGED restVars

SpecDismiss == InitDismiss /\ [][NextDismiss]_vars

\* C31: from the moment dismissSystemMessage removed s1 and for the 60 s that
\* follow, s1 is absent from the in-memory message list of c1: when the call
\* returns and after every merge of saveChat and loadChat, although chat.json
\* still holds s1.
C31_DismissedStaysOut ==
    \A p \in Procs :
        isRecentlyDismissed(recentlyDismissedMessages[p], "s1", now)
            => "s1" \notin MsgIdsOf(chatData[p].channelMessages["c1"])

\* users.json after Sam (machine A), Kim (machine B) and Ann (a third machine)
\* registered in that order
ThreeUsers ==
    << [vaultName |-> "Sam", localIdentifier |-> "idA", registered |-> 100,
        registrationNumber |-> 1, isAdmin |-> TRUE, adminLevel |-> "primary"],
       [vaultName |-> "Kim", localIdentifier |-> "idB", registered |-> 200,
        registrationNumber |-> 2, isAdmin |-> FALSE, adminLevel |-> Undef],
       [vaultName |-> "Ann", localIdentifier |-> "idC", registered |-> 300,
        registrationNumber |-> 3, isAdmin |-> FALSE, adminLevel |-> Undef] >>

\* both machines have loaded users.json (us) and identified their user
UsersLoaded(us) ==
    /\ usersFile = [exists |-> TRUE, users |-> us]
    /\ lockFile = NoLock
    /\ usersConfig = [p \in Procs |-> us]
    /\ currentUser = [p \in Procs |->
           [def |-> TRUE, live |-> TRUE,
            rec |-> us[CHOOSE i \in DOMAIN us : us[i].localIdentifier = LocalId[p]]]]
    /\ recentlyDeletedUsers = [p \in Procs |-> EmptyMap]
    /\ uPc = [p \in Procs |-> "idle"]
    /\ uCont = [p \in Procs |-> "idle"]
    /\ sCont = [p \in Procs |-> "idle"]
    /\ uAttempt = [p \in Procs |-> 0]
    /\ regAttempt = [p \in Procs |-> 0]
    /\ uContent = [p \in Procs |-> <<>>]
    /\ lockNow = [p \in Procs |-> 0]
    /\ regName = [p \in Procs |-> ""]
    /\ regResult = [p \in Procs |-> "none"]
    /\ uAfterRelease = [p \in Procs |-> "idle"]

InitRemoved == ChatStarted(DocGeneral, 0, {"m0"}) /\ UsersLoaded(ThreeUsers) /\ RemindersIdle /\ MentionsIdle

NextRemoved ==
    \/ \E p \in Procs, name \in {"Kim", "Ann"} : removeUser(p, name) /\ UserCall
    \/ \E p \in Procs : unregisterCurrentUser(p) /\ UserCall
    \/ \E p \in Procs : UnregisterDone(p) /\ UserStep
    \/ \E p \in Procs : loadUsers(p) /\ UserCall
    \/ UserSteps
    \/ \E d \in {1, USER_DELETE_PROTECTION} : Tick(d) /\ UNCHANGED restVars

SpecRemoved == InitRemoved /\ [][NextRemoved]_vars

\* the step of p in which loadUsers parses users.json, or saveUsers merges it
UsersMergeStep(p) == uPc[p] \in {"load", "usave_read"} /\ uPc'[p] # uPc[p]

\* C32: while the 300 s user-deletion protection of a user removed in process
\* p lasts, neither loadUsers nor the merge of saveUsers in p puts the user
\* back into the in-memory users document from a users.json that still lists
\* the user.
C32_RemovedUserStaysOut ==
    [][\A p, q \in Procs :
          (/\ UsersMergeStep(p)
           /\ isRecentlyDeletedUser(recentlyDeletedUsers[p], LocalId[q], now)
           /\ LocalId[q] \notin LocalIdsOf(usersConfig[p])
           /\ usersFile.exists /\ LocalId[q] \in LocalIdsOf(usersFile.users))
          => LocalId[q] \notin LocalIdsOf(usersConfig'[p])]_vars

\* ------------------------------------------------------------------------
\* Migration of a version-1 chat.json
\* ------------------------------------------------------------------------
\* a ChatDataV1 file: messages and lastReadTimestamp, no channels
DocV1 ==
    [createEmptyV2Data(0) EXCEPT
        !.version = 1,
        !.channels = EmptyMap,
        !.channelMessages[GENERAL_CHANNEL_ID] = <<NewMessage("m0", "bob", "hi", 500)>>,
        !.readState[GENERAL_CHANNEL_ID] = ("bob" :> 600)]

\* the constructor (lines 38-42): chatData is createEmptyV2Data(), every ledger
\* is empty; chat.json is the file d
Constructed(d) ==
    /\ now = StartTime
    /\ ticks = 0
    /\ chatFile = [exists |-> TRUE, doc |-> d]
    /\ corruptLeft = 0
    /\ chatData = [p \in Procs |-> createEmptyV2Data(StartTime)]
    /\ recentlySentMessages = [p \in Procs |-> EmptyMap]
    /\ recentlyDismissedMessages = [p \in Procs |-> EmptyMap]
    /\ recentlyDeletedChannels = [p \in Procs |-> EmptyMap]
    /\ recentlyLeftChannels = [p \in Procs |-> EmptyMap]
    /\ recentlyAddedMembers = [p \in Procs |-> EmptyMap]
    /\ recentlyToggledReactions = [p \in Procs |-> EmptyMap]
    /\ pc = [p \in Procs |-> "idle"]
    /\ op = [p \in Procs |-> "none"]
    /\ attempt = [p \in Procs |-> 0]
    /\ content = [p \in Procs |-> NoContent]
    /\ loaded = [p \in Procs |-> <<>>]
    /\ usedIds = {"m0"}
    /\ calls = 0

InitMigrate == Constructed(DocV1) /\ UsersIdle /\ RemindersIdle /\ MentionsIdle

NextMigrate ==
    \/ \E p \in Procs : LoadStart(p) /\ UNCHANGED restVars
    \/ \E p \in Procs : LoadRead(p) /\ UNCHANGED restVars
    \/ \E p \in Procs : sendMessage(p, SendId[p], "hi", GENERAL_CHANNEL_ID) /\ UNCHANGED restVars
    \/ \E p \in Procs : SaveRead(p) /\ UNCHANGED restVars
    \/ \E p \in Procs : SaveWrite(p) /\ UNCHANGED restVars
    \/ \E p \in Procs : SaveVerify(p) /\ UNCHANGED restVars
    \/ Tick(1000) /\ UNCHANGED restVars

SpecMigrate == InitMigrate /\ [][NextMigrate]_vars

\* the step on which a loadChat of p that read a version-1 file returns
LoadOfV1Returns(p) ==
    /\ pc[p] \in {"load_read", "save_verify"}
    /\ op[p] \in {"loadChat", "loadChat:migrate"}
    /\ pc'[p] = "idle"
    /\ loaded'[p] # <<>>
    /\ Last(loaded'[p]).parsed
    /\ Last(loaded'[p]).doc.version = 1

\* C33: when the loadChat of a process that holds the constructor's document
\* returns after reading a version-1 chat.json, the V1 messages are in the
\* in-memory general channel, the flat read timestamps are in readState for
\* general, and chat.json holds a version-2 document.
C33_MigrationIsWritten ==
    [][\A p \in Procs :
          (/\ LoadOfV1Returns(p)
           /\ chatData[p] = createEmptyV2Data(StartTime) \/ op[p] = "loadChat:migrate")
          => LET v1 == Last(loaded'[p]).doc
             IN  /\ MsgIdsOf(v1.channelMessages[GENERAL_CHANNEL_ID])
                        \subseteq MsgIdsOf(chatData'[p].channelMessages[GENERAL_CHANNEL_ID])
                 /\ \A u \in DOMAIN v1.readState[GENERAL_CHANNEL_ID] :
                        /\ u \in DOMAIN chatData'[p].readState[GENERAL_CHANNEL_ID]
                        /\ chatData'[p].readState[GENERAL_CHANNEL_ID][u]
                               = v1.readState[GENERAL_CHANNEL_ID][u]
                 /\ chatFile'.exists /\ chatFile'.doc.version = 2]_vars

\* ------------------------------------------------------------------------
\* MentionParser (mentionParser.ts)
\* ------------------------------------------------------------------------
HOUR_MS == 60 * 60 * 1000
DAY_MS == 24 * HOUR_MS

\* a Mention; readAt 0 when absent
NewMention(id, to, from, t) ==
    [id |-> id, to |-> to, from |-> from, timestamp |-> t, read |-> FALSE, readAt |-> 0,
     replies |-> <<>>]

ReadMention(id, to, from, t, at) ==
    [NewMention(id, to, from, t) EXCEPT !.read = TRUE, !.readAt = at]

\* ---- JSON.stringify(this.mentionsData, null, 2) ------------------------------
MentionStrings == << "", "alice", "bob", "carol", "n1", "n2", "n3", "n4", "q1" >>
MentionStrCode(str) == 64 + (CHOOSE i \in DOMAIN MentionStrings : MentionStrings[i] = str)

StringifyReply(r) == <<3, MentionStrCode(r.id)>> \o Digits(r.timestamp)

StringifyMention(m) ==
    <<1, MentionStrCode(m.id), MentionStrCode(m.to), MentionStrCode(m.from)>>
        \o Digits(m.timestamp) \o <<IF m.read THEN 5 ELSE 6>>
        \o (IF m.readAt = 0 THEN <<>> ELSE <<7>> \o Digits(m.readAt))
        \o <<2>> \o FlatMap(StringifyReply, m.replies)

StringifyMentions(d) ==
    FlatMap(StringifyMention, d.mentions)
        \o (IF d.lastCleanup = 0 THEN <<>> ELSE <<4>> \o Digits(d.lastCleanup))

MentionIds(ms) == {ms[i].id : i \in DOMAIN ms}

RECURSIVE MergeMentionsFrom(_, _, _, _)
\* the merge loop of saveMentions (lines 86-110) from disk[k] on; ourIds is the
\* id set taken before the loop
MergeMentionsFrom(ours, ourIds, disk, k) ==
    IF k > Len(disk) THEN ours
    ELSE LET d == disk[k]
             at == CHOOSE i \in DOMAIN ours :
                       ours[i].id = d.id /\ \A j \in 1..(i - 1) : ours[j].id # d.id
             o == ours[at]
             o1 == IF d.read /\ ~o.read THEN [o EXCEPT !.read = TRUE, !.readAt = d.readAt]
                   ELSE o
             known == MentionIds(o1.replies)
             o2 == IF d.replies # <<>>
                   THEN [o1 EXCEPT !.replies =
                            SortByTimestamp(@ \o SelectSeq(d.replies, LAMBDA r : r.id \notin known))]
                   ELSE o1
             next == IF d.id \notin ourIds THEN Append(ours, d)
                     ELSE [ours EXCEPT ![at] = o2]
         IN  MergeMentionsFrom(next, ourIds, disk, k + 1)

\* the merge of saveMentions and its sort by timestamp (lines 81-116)
MergeMentions(ours, disk) ==
    SortByTimestamp(MergeMentionsFrom(ours, MentionIds(ours), disk, 1))

\* "await this.saveMentions()" at the end of operation name
CallSaveMentions(p, name, removedIds) ==
    /\ menPc' = [menPc EXCEPT ![p] = "msave_read"]
    /\ menOp' = [menOp EXCEPT ![p] = name]
    /\ cleaned' = [cleaned EXCEPT ![p] = removedIds]
    /\ UNCHANGED <<mentionsFile, menContent, menAttempt>>

\* saveMentions up to its first write (lines 72-123)
SaveMentionsRead(p) ==
    /\ menPc[p] = "msave_read"
    /\ LET merged == IF mentionsFile.exists
                     THEN [mentionsData[p] EXCEPT
                              !.mentions = MergeMentions(@, mentionsFile.data.mentions)]
                     ELSE mentionsData[p]
       IN  /\ mentionsData' = [mentionsData EXCEPT ![p] = merged]
           /\ menContent' = [menContent EXCEPT ![p] = merged]
    /\ menPc' = [menPc EXCEPT ![p] = "msave_write"]
    /\ menAttempt' = [menAttempt EXCEPT ![p] = 1]
    /\ UNCHANGED <<mentionsFile, menOp, cleaned>>

\* "await this.app.vault.adapter.write(MENTIONS_FILE, content)"
SaveMentionsWrite(p) ==
    /\ menPc[p] = "msave_write"
    /\ mentionsFile' = [exists |-> TRUE, data |-> menContent[p]]
    /\ menPc' = [menPc EXCEPT ![p] = "msave_verify"]
    /\ UNCHANGED <<mentionsData, menOp, menContent, menAttempt, cleaned>>

\* the read-back of one write (lines 129-148)
SaveMentionsVerify(p) ==
    /\ menPc[p] = "msave_verify"
    /\ IF SaveLoopExits(SameHash(StringifyMentions(menContent[p]),
                                 StringifyMentions(mentionsFile.data)), menAttempt[p])
       THEN /\ menPc' = [menPc EXCEPT ![p] = "idle"]
            /\ menOp' = [menOp EXCEPT ![p] = "none"]
            /\ menAttempt' = [menAttempt EXCEPT ![p] = 0]
            /\ menContent' = [menContent EXCEPT ![p] = NoMentions]
            /\ cleaned' = [cleaned EXCEPT ![p] = {}]
       ELSE /\ menAttempt' = [menAttempt EXCEPT ![p] = @ + 1]
            /\ menPc' = [menPc EXCEPT ![p] = "msave_write"]
            /\ UNCHANGED <<menOp, menContent, cleaned>>
    /\ UNCHANGED <<mentionsFile, mentionsData>>

\* loadMentions (lines 50-67)
loadMentions(p) ==
    /\ menPc[p] = "idle"
    /\ IF mentionsFile.exists
       THEN /\ mentionsData' = [mentionsData EXCEPT ![p] = mentionsFile.data]
            /\ UNCHANGED <<mentionsFile, menPc, menOp, menContent, menAttempt, cleaned>>
       ELSE /\ mentionsData' = [mentionsData EXCEPT ![p] = NoMentions]
            /\ CallSaveMentions(p, "loadMentions", {})

\* markAsRead(mentionId)
markAsRead(p, id) ==
    /\ menPc[p] = "idle"
    /\ \E i \in DOMAIN mentionsData[p].mentions :
        /\ mentionsData[p].mentions[i].id = id
        /\ \A j \in 1..(i - 1) : mentionsData[p].mentions[j].id # id
        /\ ~mentionsData[p].mentions[i].read
        /\ mentionsData' = [mentionsData EXCEPT ![p].mentions[i] =
               [@ EXCEPT !.read = TRUE, !.readAt = now]]
    /\ CallSaveMentions(p, "markAsRead", {})

\* the end of the three cleanups: "if (removed > 0) await this.saveMentions()"
AfterCleanup(p, name, kept) ==
    IF Len(mentionsData[p].mentions) - Len(kept) > 0
    THEN CallSaveMentions(p, name, MentionIds(mentionsData[p].mentions) \ MentionIds(kept))
    ELSE UNCHANGED <<mentionsFile, menPc, menOp, menContent, menAttempt, cleaned>>

\* cleanupOldMentions(daysOld)
cleanupOldMentions(p, daysOld) ==
    /\ menPc[p] = "idle"
    /\ LET cutoff == now - daysOld * DAY_MS
           kept == SelectSeq(mentionsData[p].mentions,
                             LAMBDA m : ~m.read \/ m.timestamp > cutoff)
       IN  /\ mentionsData' = [mentionsData EXCEPT ![p].mentions = kept]
           /\ AfterCleanup(p, "cleanupOldMentions", kept)

\* cleanupMentionsScoped(scope, targetUser, daysOld)
KeptByScope(m, scope, targetUser, cutoff, daysOld) ==
    IF ~m.read THEN TRUE
    ELSE IF ~(daysOld = 0 \/ m.timestamp <= cutoff) THEN TRUE
    ELSE IF scope \in {"my-received", "user-received"} THEN m.to # targetUser
    ELSE IF scope \in {"my-sent", "user-sent"} THEN m.from # targetUser
    ELSE IF scope = "all" THEN FALSE
    ELSE TRUE

cleanupMentionsScoped(p, scope, targetUser, daysOld) ==
    /\ menPc[p] = "idle"
    /\ LET cutoff == now - daysOld * DAY_MS
           kept == SelectSeq(mentionsData[p].mentions,
                             LAMBDA m : KeptByScope(m, scope, targetUser, cutoff, daysOld))
       IN  /\ mentionsData' = [mentionsData EXCEPT ![p].mentions = kept]
           /\ AfterCleanup(p, "cleanupMentionsScoped", kept)

\* insert m after every element whose timestamp is not smaller (stable, descending)
InsertNewestFirst(sorted, m) ==
    LET notEarlier == {i \in DOMAIN sorted : sorted[i].timestamp >= m.timestamp}
        k == IF notEarlier = {} THEN 0 ELSE CHOOSE i \in notEarlier : \A j \in notEarlier : j <= i
    IN  SubSeq(sorted, 1, k) \o <<m>> \o SubSeq(sorted, k + 1, Len(sorted))

RECURSIVE SortNewestFirst(_)
\* Array.prototype.sort with (a, b) => time(b) - time(a)
SortNewestFirst(ms) ==
    IF ms = <<>> THEN <<>>
    ELSE InsertNewestFirst(SortNewestFirst(SubSeq(ms, 1, Len(ms) - 1)), ms[Len(ms)])

\* the keys of mentionsByUser in insertion order
Recipients(ms) ==
    LET firsts == SelectSeq([i \in DOMAIN ms |-> i],
                            LAMBDA i : \A j \in 1..(i - 1) : ms[j].to # ms[i].to)
    IN  [k \in DOMAIN firsts |-> ms[firsts[k]].to]

\* "Keep unread mentions + last N mentions" of one recipient (lines 547-554)
KeptFor(ms, user, maxPerUser) ==
    LET userMentions == SortNewestFirst(SelectSeq(ms, LAMBDA m : m.to = user))
        unread == SelectSeq(userMentions, LAMBDA m : ~m.read)
        read == SelectSeq(userMentions, LAMBDA m : m.read)
        room == IF maxPerUser - Len(unread) > 0 THEN maxPerUser - Len(unread) ELSE 0
    IN  unread \o SubSeq(read, 1, IF room < Len(read) THEN room ELSE Len(read))

\* autoCleanupMentions(maxPerUser, cleanupIntervalHours); the call that returns 0
\* at line 525 changes nothing
autoCleanupMentions(p, maxPerUser, cleanupIntervalHours) ==
    /\ menPc[p] = "idle"
    /\ ~(now - mentionsData[p].lastCleanup < cleanupIntervalHours * HOUR_MS)
    /\ LET ms == mentionsData[p].mentions
           users == Recipients(ms)
           kept == FlatMap(LAMBDA u : KeptFor(ms, u, maxPerUser), users)
       IN  /\ mentionsData' = [mentionsData EXCEPT ![p] = [mentions |-> kept, lastCleanup |-> now]]
           /\ AfterCleanup(p, "autoCleanupMentions", kept)

\* a step inside an operation of the MentionParser
MentionStep == UNCHANGED <<now, ticks, chatQuiet, calls, userVars, reminderVars>>

\* the first step of an operation of the MentionParser
MentionCall ==
    /\ calls < MaxCalls
    /\ calls' = calls + 1
    /\ UNCHANGED <<now, ticks, chatQuiet, userVars, reminderVars>>

\* mentions.json: three mentions to bob, two of them read, and one read mention
\* to alice
DocMentions ==
    [mentions |-> << ReadMention("n1", "bob", "alice", 100, 150),
                     ReadMention("n2", "bob", "alice", 200, 250),
                     NewMention("n3", "bob", "carol", 300),
                     ReadMention("n4", "alice", "bob", 400, 450) >>,
     lastCleanup |-> 0]

\* the settings maxMentionsPerUser and cleanupIntervalHours
MaxPerUser == 1
CleanupIntervalHours == 1

InitMentions ==
    ChatStarted(DocGeneral, 0, {"m0"}) /\ UsersIdle /\ RemindersIdle /\ MentionsLoaded(DocMentions)

NextMentions ==
    \/ \E p \in Procs : autoCleanupMentions(p, MaxPerUser, CleanupIntervalHours) /\ MentionCall
    \/ \E p \in Procs : cleanupOldMentions(p, 0) /\ MentionCall
    \/ \E p \in Procs, scope \in {"my-received", "my-sent", "all"} :
           cleanupMentionsScoped(p, scope, Me(p), 0) /\ MentionCall
    \/ \E p \in Procs : markAsRead(p, "n3") /\ MentionCall
    \/ \E p \in Procs : loadMentions(p) /\ MentionCall
    \/ \E p \in Procs : SaveMentionsRead(p) /\ MentionStep
    \/ \E p \in Procs : SaveMentionsWrite(p) /\ MentionStep
    \/ \E p \in Procs : SaveMentionsVerify(p) /\ MentionStep
    \/ Tick(HOUR_MS) /\ UNCHANGED restVars

SpecMentions == InitMentions /\ [][NextMentions]_vars

\* the mentions of ms addressed to user, and the unread ones among them
MentionsTo(ms, user) == SelectSeq(ms, LAMBDA m : m.to = user)
UnreadTo(ms, user) == SelectSeq(ms, LAMBDA m : m.to = user /\ ~m.read)

WithinQuota(ms) ==
    \A user \in Users :
        Len(MentionsTo(ms, user)) <= MaxPerUser \/ Len(MentionsTo(ms, user)) <= Len(UnreadTo(ms, user))

\* C34: when the saveMentions of autoCleanupMentions, cleanupOldMentions or
\* cleanupMentionsScoped returns, none of the mentions the cleanup removed is in
\* the in-memory collection or in the document it wrote to mentions.json, and
\* after autoCleanupMentions every recipient holds at most
\* max(maxPerUser, number of unread) mentions.
C34_CleanedMentionsStayOut ==
    [][\A p \in Procs :
          (/\ menPc[p] = "msave_verify" /\ menPc'[p] = "idle"
           /\ menOp[p] \in {"autoCleanupMentions", "cleanupOldMentions", "cleanupMentionsScoped"})
          => /\ cleaned[p] \cap MentionIds(mentionsData'[p].mentions) = {}
             /\ cleaned[p] \cap MentionIds(menContent[p].mentions) = {}
             /\ menOp[p] = "autoCleanupMentions" => WithinQuota(mentionsData'[p].mentions)]_vars

\* ---- direct messages -----------------------------------------------------------
InitDm == ChatStarted(DocDm, 0, {"c1"}) /\ UsersIdle /\ RemindersIdle /\ MentionsIdle

NextDm ==
    \/ \E p \in Procs : startDM(p, "c2", "carol") /\ UNCHANGED restVars
    \/ \E p \in Procs : addMemberToChannel(p, "c1", "carol", LeaveId[p]) /\ UNCHANGED restVars
    \/ \E p \in Procs : leaveChannel(p, "c1", Me(p), LeaveId[p]) /\ UNCHANGED restVars
    \/ \E p \in Procs : SaveRead(p) /\ UNCHANGED restVars
    \/ \E p \in Procs : SaveWrite(p) /\ UNCHANGED restVars
    \/ \E p \in Procs : SaveVerify(p) /\ UNCHANGED restVars
    \/ \E p \in Procs : LoadStart(p) /\ UNCHANGED restVars
    \/ \E p \in Procs : LoadRead(p) /\ UNCHANGED restVars
    \/ Tick(1000) /\ UNCHANGED restVars

SpecDm == InitDm /\ [][NextDm]_vars

DmChannels(doc) == {c \in DOMAIN doc.channels : doc.channels[c].type = "dm"}

\* C35: in every state of a machine's in-memory chat document, every channel of
\* type dm has exactly 2 members, whatever startDM, addMemberToChannel,
\* leaveChannel and the member merge of loadChat did.
C35_DmHasTwoMembers ==
    \A p \in Procs : \A c \in DmChannels(chatData[p]) :
        Cardinality(chatData[p].channels[c].members) = 2

\* ---- muted channels ------------------------------------------------------------
\* this.chatData.mutedChannels?.[user] || []
MutedBy(doc, user) ==
    IF doc.mutedChannels.def /\ user \in DOMAIN doc.mutedChannels.map
    THEN doc.mutedChannels.map[user] ELSE {}

\* toggleChannelMute(channelId) (lines 1357-1380) up to its saveChat
toggleChannelMute(p, c) ==
    /\ pc[p] = "idle"
    /\ LET mutedList == MutedBy(chatData[p], Me(p))
           toggled == IF c \in mutedList THEN mutedList \ {c} ELSE mutedList \cup {c}
       IN  /\ chatData' = [chatData EXCEPT ![p].mutedChannels =
                  [def |-> TRUE, map |-> With(@.map, Me(p), toggled)]]
           /\ CallSave(p, IF c \in mutedList THEN "toggleChannelMute:off"
                          ELSE "toggleChannelMute:on")
    /\ UNCHANGED <<ledgerVars, usedIds>>

InitMute == ChatStarted(DocGroup, 0, {"c1"}) /\ UsersIdle /\ RemindersIdle /\ MentionsIdle

NextMute ==
    \/ \E p \in Procs : toggleChannelMute(p, "c1") /\ UNCHANGED restVars
    \/ \E p \in Procs : SaveRead(p) /\ UNCHANGED restVars
    \/ \E p \in Procs : SaveWrite(p) /\ UNCHANGED restVars
    \/ \E p \in Procs : SaveVerify(p) /\ UNCHANGED restVars
    \/ \E p \in Procs : LoadStart(p) /\ UNCHANGED restVars
    \/ \E p \in Procs : LoadRead(p) /\ UNCHANGED restVars
    \/ Tick(1000) /\ UNCHANGED restVars

SpecMute == InitMute /\ [][NextMute]_vars

\* C36: when a toggleChannelMute that found the channel muted for the current
\* user returns from its saveChat, the channel is not in that user's mute list,
\* neither in memory (so the call returns false) nor in the document written to
\* chat.json.
C36_UnmuteSticks ==
    [][\A p \in Procs :
          (/\ op[p] = "toggleChannelMute:off"
           /\ pc[p] = "save_verify" /\ pc'[p] = "idle")
          => /\ "c1" \notin MutedBy(chatData'[p], Me(p))
             /\ "c1" \notin MutedBy(content[p], Me(p))]_vars

\* ---- what a deleted channel leaves behind --------------------------------------
\* the per-channel entries doc holds for channel c
EntriesFor(doc, c) ==
    (IF c \in DOMAIN doc.channelMessages THEN {"channelMessages"} ELSE {})
        \cup (IF c \in DOMAIN doc.readState THEN {"readState"} ELSE {})

\* C37: when deleteChannel(c1), its saveChat included, has returned, neither the
\* in-memory document nor the document written to chat.json has a
\* channelMessages entry or a readState entry for c1.
C37_NoOrphanEntries ==
    [][\A p \in Procs :
          (/\ op[p] = "deleteChannel"
           /\ pc[p] = "save_verify" /\ pc'[p] = "idle")
          => /\ EntriesFor(chatData'[p], "c1") = {}
             /\ EntriesFor(content[p], "c1") = {}]_vars

\* ---- where admin rights come from ----------------------------------------------
\* the users of us that hold isAdmin without holding the lowest registrationNumber
AdminsBesidesFirst(us) ==
    {i \in DOMAIN us : /\ us[i].isAdmin
                       /\ \E j \in DOMAIN us : us[j].registrationNumber < us[i].registrationNumber}

\* C38: no machine ever calls promoteToAdmin here, so in every state of
\* users.json a user who does not hold the lowest registrationNumber has isAdmin
\* not true, also when two first registrations raced and saveUsers merged them.
C38_AdminOnlyByRank ==
    usersFile.exists => AdminsBesidesFirst(usersFile.users) = {}

\* ---- the current-user record -----------------------------------------------------
\* what identifyCurrentUser (lines 649-655) would find in the users document us
IdentifiedIn(us, id) ==
    LET mine == {i \in DOMAIN us : us[i].localIdentifier = id}
    IN  IF mine = {} THEN NoUser ELSE us[CHOOSE i \in mine : \A j \in mine : i <= j]

\* the file watcher's loadUsers returns (main.ts checkForUsersFileChanges), or a
\* registerUser that ran loadUsers returns
LoadUsersReturns(p) ==
    /\ uPc'[p] = "idle"
    /\ \/ uPc[p] = "load"
       \/ uPc[p] \in {"rel_read", "rel_remove"}

\* C39: when the file watcher's loadUsers or a registerUser returns,
\* getCurrentUser() is the entry of the in-memory users document whose
\* localIdentifier is this machine's, or null when there is none.
C39_CurrentUserFollowsDocument ==
    [][\A p \in Procs :
          LoadUsersReturns(p)
          => LET found == IdentifiedIn(usersConfig'[p], LocalId[p])
             IN  IF found = NoUser THEN ~currentUser'[p].def
                 ELSE currentUser'[p].def /\ currentUser'[p].rec = found]_vars

\* ---- message ids -----------------------------------------------------------------
NoRepeatedId(msgs) == \A i, j \in DOMAIN msgs : i # j => msgs[i].id # msgs[j].id

\* C40: in every state no channel's in-memory message list holds two messages
\* with the same id, whatever sendMessage, the merges of loadChat and saveChat
\* with disk snapshots, and the resurrect pass of ensureRecentMessagesExist did.
C40_UniqueMessageIds ==
    \A p \in Procs : \A c \in DOMAIN chatData[p].channelMessages :
        NoRepeatedId(chatData[p].channelMessages[c])

\* both machines have sent to c1 and saved; a machine whose own message is still
\* protected has then merged a disk snapshot that holds both messages
C40_Witness ==
    \E p \in Procs :
        /\ pc[p] = "idle" /\ loaded[p] # <<>> /\ Last(loaded[p]).parsed
        /\ "c1" \in DOMAIN Last(loaded[p]).doc.channelMessages
        /\ {"m1", "m2"} \subseteq MsgIdsOf(Last(loaded[p]).doc.channelMessages["c1"])
        /\ SendId[p] \in DOMAIN recentlySentMessages[p]
        /\ "c1" \in DOMAIN chatData[p].channelMessages
        /\ {"m1", "m2"} \subseteq MsgIdsOf(chatData[p].channelMessages["c1"])

====
